---- MODULE Spec2Model ----
(***************************************************************************)
(* The Oracle MCP server (legacy_agents/simple-bot/oracle_mcp_server.py):  *)
(* a stdio JSON-RPC server with Content-Length framing and three tools     *)
(* backed by two JSON files.                                               *)
(*                                                                         *)
(* Text is modelled over a reduced alphabet.  A character is a TLA+ string *)
(* (one symbol per lexical element of a header or a JSON document); a text *)
(* is a sequence of characters.  One character, Wide, has a two-byte UTF-8 *)
(* encoding; every other character has a one-byte encoding.  sys.stdin and *)
(* sys.stdout are text streams: reads and len() count characters, while    *)
(* the Content-Length of the wire protocol counts bytes.                   *)
(*                                                                         *)
(* With it: the Telegram bot that writes the two files                     *)
(* (agents/simple-bot/oracle_telegram.py), its autonomous loops and its    *)
(* conversation history; the MonWorld MCP server                           *)
(* (agents/mcp-server/monworld_mcp.py); and the standalone agent           *)
(* (agents/simple-bot/agent.py).                                           *)
(***************************************************************************)
EXTENDS Integers, Sequences, FiniteSets, TLC

VARIABLES
    stdin,                  \* characters written by the client, not yet read
    eof,                    \* the client has closed the input stream
    pc,                     \* position of main(): "header", "body", "dispatch", "done"
    content_length,         \* main()'s local content_length
    msg,                    \* main()'s local msg (the parsed body)
    stdout,                 \* frames written to sys.stdout since the client's last write
    stderr,                 \* number of lines written to sys.stderr
    shared_state_file,      \* SHARED_STATE_FILE on disk
    pending_messages_file,  \* PENDING_MESSAGES_FILE on disk
    nframes,                \* frames the client has written
    last,                   \* history: the frame the client wrote last
    prev,                   \* history: the frame written before it, whether an
                            \* exception was reported while the server handled it,
                            \* and the status text it was answered with
    got,                    \* history: requests dispatched since the client's last write
    oracle_state,           \* the bot's state = OracleState() (oracle_telegram.py):
                            \* connected, autonomous
    relay_pc,               \* position of check_pending_messages: "idle", "sending",
                            \* "clearing" (line 667 has opened the file)
    relay_items,            \* its local pending: the entries still to be sent
    relay_read,             \* history: the entries it read in this cycle
    relay_sent,             \* history: the texts it sent in this cycle
    relay_cut,              \* history: the texts its last cycle had sent when it ended
                            \* before line 667 was reached
    relay_again,            \* history: in a cycle, relay_cut as it was when the cycle began
    logged,                 \* history: every conversation passed to _log_conversation
    tool_pc,                \* position of the server's oracle_send_message between its
                            \* file operations: "idle", "read", "truncated"
    tool_pending,           \* its local pending (line 82: what it read, and the new entry)
    tool_result,            \* history: the last tool call that returned, with its text
    log_pc,                 \* position of _log_conversation between its file
                            \* operations: "idle", "truncated"
    log_shared,             \* its local shared: the document line 193 writes
    log_before,             \* history: the state file before line 193 opened it
    telegram,               \* history: every text the bot has relayed to Telegram
    confirmed,              \* history: the messages oracle_send_message has confirmed
    loops,                  \* the tasks cmd_explore has created (autonomous_loop), in
                            \* the order of creation: where each one is ("test": at
                            \* the while condition, "asleep": in an await, "ended")
                            \* and whether it has submitted a world action since the
                            \* last /explore or /stop was handled
    conversation_history,   \* state.conversation_history of the bot
    claude_client,          \* claude_client of the bot is set (ANTHROPIC_API_KEY given)
    replies,                \* history: number of replies the Claude API has given
    session,                \* session of the MonWorld MCP server (monworld_mcp.py)
    api_calls,              \* history: the HTTP requests the MonWorld MCP server made
    mcp_text,               \* history: the tool it ran last and the text it returned
    credentials,            \* AGENT_WALLET and ERC8004_AGENT_ID are set in its
                            \* environment
    agent_state,            \* MonWorldAgent.state (agent.py): None or entered
    last_action_time,       \* MonWorldAgent.last_action_time
    clock,                  \* what time.time() returns, in seconds
    posted,                 \* history: the clock readings of the do_action calls that
                            \* sent a request
    returned                \* history: what the last do_action call returned

\* The variables of the server process and its client.
server == <<stdin, eof, pc, content_length, msg, stdout, stderr, nframes, last, prev, got>>

\* The variables of the bot process (the collaborator).
bot == <<oracle_state, relay_pc, relay_items, relay_read, relay_sent, relay_cut,
         relay_again, logged>>

\* The variables of the model in which the file operations of the two
\* processes interleave.
fs == <<tool_pc, tool_pending, tool_result, log_pc, log_shared, log_before, telegram,
        confirmed>>

\* The autonomous loops and the memory of the bot.
explorer == <<loops, conversation_history, claude_client, replies>>

\* The variables of the MonWorld MCP server.
monworld == <<session, api_calls, mcp_text, credentials>>

\* The variables of the standalone agent (MonWorldAgent).
agent == <<agent_state, last_action_time, clock, posted, returned>>

vars == <<stdin, eof, pc, content_length, msg, stdout, stderr, shared_state_file,
          pending_messages_file, nframes, last, prev, got, oracle_state, relay_pc,
          relay_items, relay_read, relay_sent, relay_cut, relay_again, logged, tool_pc,
          tool_pending,
          tool_result, log_pc, log_shared, log_before, telegram, confirmed, loops,
          conversation_history, claude_client, replies, session, api_calls, mcp_text,
          credentials,
          agent_state, last_action_time, clock, posted, returned>>

(***************************************************************************)
(* Bounds of the model.                                                    *)
(***************************************************************************)
MaxFrames == 2      \* frames the client writes before it closes the stream
MaxNumeral == 64    \* largest decimal numeral int() is asked to read in the model
MaxTurns == 52      \* user messages the bot handles
MaxQueue == 2       \* entries the server puts into the queue file

(***************************************************************************)
(* Characters.                                                             *)
(***************************************************************************)
NL == "\n"                      \* a line end as the text layer delivers it
CLName == "Content-Length:"     \* the header field name, with its colon
OtherName == "X-Other:"         \* some other header field
Wide == "U+00E9"                \* a character outside ASCII (two bytes in UTF-8)
Absent == "<absent>"            \* a key that the JSON object does not have
None == "null"                  \* Python's None, JSON's null

Width(c) == IF c = Wide THEN 2 ELSE 1

RECURSIVE ByteLen(_)
ByteLen(s) == IF s = <<>> THEN 0 ELSE Width(Head(s)) + ByteLen(Tail(s))

Last(s) == s[Len(s)]

Range(s) == {s[i] : i \in 1..Len(s)}

(***************************************************************************)
(* JSON documents.  A document of the model is an object with four scalar  *)
(* members, f[1..4], and an optional string member, text.  Its JSON text   *)
(* is  { f1 f2 f3 f4 " <escaped text> " } .  A request uses the members as *)
(* method, id, params.name, params.arguments.limit and the string as       *)
(* params.arguments.message; a response as id, result/error, the shape of  *)
(* the result, the error code, and the string as the text it carries.      *)
(***************************************************************************)
Quote == "\""
Backslash == "\\"
LBrace == "{"
RBrace == "}"
HexOfWide == "u00e9"

Doc(f1, f2, f3, f4, hasText, text) ==
    [f |-> <<f1, f2, f3, f4>>, hasText |-> hasText, text |-> text]

\* json.dumps(ensure_ascii=True) of one character of a string
EscapeChar(c) ==
    CASE c = Wide      -> <<Backslash, HexOfWide>>
      [] c = NL        -> <<Backslash, "n">>
      [] c = Quote     -> <<Backslash, Quote>>
      [] c = Backslash -> <<Backslash, Backslash>>
      [] OTHER         -> <<c>>

\* A JSON writer that leaves characters outside ASCII as they are (what a
\* client that writes UTF-8 sends, and json.dumps with ensure_ascii=False).
EscapeCharRaw(c) ==
    CASE c = NL        -> <<Backslash, "n">>
      [] c = Quote     -> <<Backslash, Quote>>
      [] c = Backslash -> <<Backslash, Backslash>>
      [] OTHER         -> <<c>>

RECURSIVE Escape(_)
Escape(s) == IF s = <<>> THEN <<>> ELSE EscapeChar(Head(s)) \o Escape(Tail(s))

RECURSIVE EscapeRaw(_)
EscapeRaw(s) == IF s = <<>> THEN <<>> ELSE EscapeCharRaw(Head(s)) \o EscapeRaw(Tail(s))

Utf8Json(doc) ==
    <<LBrace>> \o doc.f
      \o (IF doc.hasText THEN <<Quote>> \o EscapeRaw(doc.text) \o <<Quote>> ELSE <<>>)
      \o <<RBrace>>

\* json.dumps called with ensure_ascii=False
json_dumps_ensure_ascii_false(doc) == Utf8Json(doc)

\* json.dumps(obj): every character of the result is ASCII
json_dumps(doc) ==
    <<LBrace>> \o doc.f
      \o (IF doc.hasText THEN <<Quote>> \o Escape(doc.text) \o <<Quote>> ELSE <<>>)
      \o <<RBrace>>

\* Is s the inside of a JSON string literal?  No raw quote or line end, and
\* every backslash starts an escape.
RECURSIVE ValidEscaped(_)
ValidEscaped(s) ==
    IF s = <<>> THEN TRUE
    ELSE IF Head(s) = Backslash
         THEN /\ Len(s) >= 2
              /\ s[2] \in {HexOfWide, "n", Quote, Backslash}
              /\ ValidEscaped(SubSeq(s, 3, Len(s)))
         ELSE /\ Head(s) \notin {Quote, NL}
              /\ ValidEscaped(Tail(s))

UnescapeChar(c) ==
    CASE c = HexOfWide -> Wide
      [] c = "n"       -> NL
      [] OTHER         -> c

RECURSIVE Unescape(_)
Unescape(s) ==
    IF s = <<>> THEN <<>>
    ELSE IF Head(s) = Backslash
         THEN <<UnescapeChar(s[2])>> \o Unescape(SubSeq(s, 3, Len(s)))
         ELSE <<Head(s)>> \o Unescape(Tail(s))

\* A character that can stand for a scalar member of an object.
IsScalar(c) == c \notin {LBrace, RBrace, Quote, Backslash, NL, CLName, OtherName}

NoDoc == Doc(Absent, Absent, Absent, Absent, FALSE, <<>>)

\* A JSON value that is not an object (a number, say): one scalar and no members.
Scalar(tok) == [f |-> <<tok>>, hasText |-> FALSE, text |-> <<>>]

IsObject(m) == Len(m.f) = 4

\* A member whose value is a JSON array where the code expects an object.
ListValue == "[1]"

\* json.loads(body): [ok |-> FALSE] stands for json.JSONDecodeError.
json_loads(s) ==
    LET n == Len(s)
        wellBraced == n >= 6 /\ s[1] = LBrace /\ s[n] = RBrace
                        /\ \A i \in 2..5 : IsScalar(s[i])
        str == SubSeq(s, 6, n - 1)
        strOk == \/ str = <<>>
                 \/ /\ Len(str) >= 2
                    /\ str[1] = Quote
                    /\ str[Len(str)] = Quote
                    /\ ValidEscaped(SubSeq(str, 2, Len(str) - 1))
    IN  IF wellBraced /\ strOk
        THEN [ok |-> TRUE,
              obj |-> Doc(s[2], s[3], s[4], s[5], str # <<>>,
                          IF str = <<>> THEN <<>>
                          ELSE Unescape(SubSeq(str, 2, Len(str) - 1)))]
        ELSE IF n = 1 /\ IsScalar(s[1])
        THEN [ok |-> TRUE, obj |-> Scalar(s[1])]
        ELSE [ok |-> FALSE, obj |-> NoDoc]

(***************************************************************************)
(* The header block (main, lines 156-173).                                 *)
(***************************************************************************)
\* The readline loop: the header is the shortest run of whole lines that ends
\* with two line ends.  0 when the text holds no such run.
HeaderEnd(s) ==
    LET ends == {i \in 2..Len(s) : s[i - 1] = NL /\ s[i] = NL}
    IN  IF ends = {} THEN 0 ELSE CHOOSE i \in ends : \A j \in ends : i <= j

\* str.strip(): line ends at both ends removed
RECURSIVE LStrip(_)
LStrip(s) == IF s # <<>> /\ Head(s) = NL THEN LStrip(Tail(s)) ELSE s

RECURSIVE RStrip(_)
RStrip(s) == IF s # <<>> /\ Last(s) = NL THEN RStrip(SubSeq(s, 1, Len(s) - 1)) ELSE s

Strip(s) == RStrip(LStrip(s))

\* str.split("\n")
RECURSIVE SplitLines(_, _)
SplitLines(s, cur) ==
    IF s = <<>> THEN <<cur>>
    ELSE IF Head(s) = NL THEN <<cur>> \o SplitLines(Tail(s), <<>>)
         ELSE SplitLines(Tail(s), Append(cur, Head(s)))

Numerals == {ToString(n) : n \in (0 - MaxNumeral)..MaxNumeral}

\* int(h.split(":")[1].strip()) for a line h that starts with the field name:
\* the value is what follows the name.  ok = FALSE stands for ValueError.
IntOfValue(rest) ==
    IF Len(rest) = 1 /\ rest[1] \in Numerals
    THEN [ok |-> TRUE,
          n |-> CHOOSE n \in (0 - MaxNumeral)..MaxNumeral : ToString(n) = rest[1]]
    ELSE [ok |-> FALSE, n |-> 0]

\* Lines 167-170: the loop over the header's lines.  The last Content-Length
\* line wins; int() raising ends the loop.
RECURSIVE ScanLines(_, _)
ScanLines(lines, cl) ==
    IF lines = <<>> THEN [raised |-> FALSE, content_length |-> cl]
    ELSE LET h == Head(lines)
         IN  IF h # <<>> /\ h[1] = CLName
             THEN LET v == IntOfValue(Tail(h))
                  IN  IF v.ok THEN ScanLines(Tail(lines), v.n)
                      ELSE [raised |-> TRUE, content_length |-> cl]
             ELSE ScanLines(Tail(lines), cl)

ParseHeader(header) == ScanLines(SplitLines(Strip(header), <<>>), 0)

\* sys.stdin.read(n) on a stream whose unread text is s and that is at its end
\* after s: a negative n reads everything.
ReadChars(s, n) == IF n < 0 \/ n > Len(s) THEN s ELSE SubSeq(s, 1, n)

\* One pass of lines 156-177 over a complete stream s (nothing follows s):
\* what a reader built like main() gets from the text s.
Receive(s) ==
    LET e == HeaderEnd(s)
        p == ParseHeader(SubSeq(s, 1, e))
        rest == SubSeq(s, e + 1, Len(s))
        body == ReadChars(rest, p.content_length)
        r == json_loads(body)
    IN  IF e = 0 \/ p.raised \/ p.content_length = 0 \/ ~r.ok
        THEN [ok |-> FALSE, obj |-> NoDoc, declared |-> 0, body |-> <<>>, rest |-> <<>>]
        ELSE [ok |-> TRUE, obj |-> r.obj, declared |-> p.content_length, body |-> body,
              rest |-> SubSeq(rest, Len(body) + 1, Len(rest))]

(***************************************************************************)
(* The two backing files.  kind is "missing" (no such file), "garbage"     *)
(* (text that is not JSON), "undecodable" (bytes that are not text in the  *)
(* encoding read_text() uses), "dict" or "list" (JSON of that type).  A    *)
(* file is modelled by the JSON value it holds.                            *)
(***************************************************************************)
NoStatus ==
    [empty |-> TRUE, connected |-> "False", agent_id |-> "N/A", position |-> "N/A",
     autonomous |-> "False", last_active |-> 0]

\* What status stands for in a JSON object that has no "status" key.
NoStatusKey ==
    [empty |-> TRUE, connected |-> "False", agent_id |-> "N/A", position |-> "N/A",
     autonomous |-> "False", last_active |-> 0, absent |-> TRUE]

StateFile(kind, conversations, status) ==
    [kind |-> kind, conversations |-> conversations, status |-> status]

PendingFile(kind, items) == [kind |-> kind, items |-> items]

\* read_shared_state(): the file's JSON value, or the default document when the
\* file is missing or is not JSON.  read_text() raising UnicodeDecodeError is
\* not among the exceptions caught at line 26: kind "raised" stands for it.
read_shared_state(file) ==
    IF file.kind \in {"dict", "list"} THEN file
    ELSE IF file.kind = "undecodable" THEN StateFile("raised", <<>>, NoStatus)
    ELSE StateFile("dict", <<>>, NoStatus)

(***************************************************************************)
(* handle_tool_call (lines 31-91).  The result is [raised, text, pending]: *)
(* raised = TRUE stands for an exception leaving the function, text is the *)
(* returned string and pending the pending-messages file afterwards.       *)
(***************************************************************************)
DefaultLimit == 10
AliveWindow == 60
SecondsPerDay == 86400

Max(a, b) == IF a >= b THEN a ELSE b
Min(a, b) == IF a <= b THEN a ELSE b

\* convos[-limit:]
LastSlice(convos, limit) ==
    LET n == Len(convos)
        start == IF limit > 0 THEN Max(n - limit, 0) ELSE Min(0 - limit, n)
    IN  SubSeq(convos, start + 1, n)

\* time.strftime("%H:%M:%S", time.localtime(t)), in a zone at UTC
TimeOfDay(t) == ToString(t % SecondsPerDay)

\* "\n".join(lines)
RECURSIVE Join(_)
Join(lines) ==
    IF lines = <<>> THEN <<>>
    ELSE IF Len(lines) = 1 THEN lines[1]
         ELSE lines[1] \o <<NL>> \o Join(Tail(lines))

\* The characters of a string held in one scalar: none for the empty string.
Chars(tok) == IF tok = "" THEN <<>> ELSE <<tok>>

RECURSIVE ConversationLines(_)
ConversationLines(recent) ==
    IF recent = <<>> THEN <<>>
    ELSE LET c == Head(recent)
             ts == TimeOfDay(c.timestamp)
         IN  << <<"[", ts, "] User: ">> \o Chars(c.user),
                <<"[", ts, "] Oracle: ">> \o Chars(c.oracle),
                <<>> >> \o ConversationLines(Tail(recent))

Returned(text, pending) == [raised |-> FALSE, text |-> text, pending |-> pending]
Raised(pending) == [raised |-> TRUE, text |-> <<>>, pending |-> pending]

get_conversations(limit, state_file, pending) ==
    LET state == read_shared_state(state_file)
        lim == IF limit = Absent THEN [ok |-> TRUE, n |-> DefaultLimit]
               ELSE IntOfValue(<<limit>>)
        recent == LastSlice(state.conversations, lim.n)
    IN  IF state.kind # "dict" \/ ~lim.ok THEN Raised(pending)
        ELSE IF recent = <<>>
        THEN Returned(<<"No conversations yet. The Oracle bot may not be running.">>,
                      pending)
        ELSE IF \E i \in 1..Len(recent) :
                    recent[i].user = Absent \/ recent[i].oracle = Absent
        THEN Raised(pending)
        ELSE Returned(Join(ConversationLines(recent)), pending)

\* get_status that leaves an empty queue file behind.
get_status_touching_queue(state_file, pending, now) ==
    Returned(<<"Oracle bot is not running or has not reported status yet.">>,
             PendingFile("list", <<>>))

\* get_status with ago <= 60 at line 59.
get_status_inclusive(state_file, pending, now) ==
    LET state == read_shared_state(state_file)
        status == state.status
        last_active == status.last_active
        alive == IF last_active # 0 /\ now - last_active <= AliveWindow
                 THEN <<"yes">>
                 ELSE <<"last seen ",
                        IF last_active # 0 THEN ToString(now - last_active) ELSE "inf",
                        "s ago">>
    IN  IF state.kind # "dict" THEN Raised(pending)
        ELSE IF status.empty
        THEN Returned(<<"Oracle bot is not running or has not reported status yet.">>,
                      pending)
        ELSE Returned(<<"Connected to The Grid: ", status.connected, NL,
                        "Agent ID: ", status.agent_id, NL,
                        "Position: ", status.position, NL,
                        "Autonomous mode: ", status.autonomous, NL,
                        "Alive: ">> \o alive, pending)

get_status(state_file, pending, now) ==
    LET state == read_shared_state(state_file)
        status == state.status
        last_active == status.last_active
        alive == IF last_active # 0 /\ now - last_active < AliveWindow
                 THEN <<"yes">>
                 ELSE <<"last seen ",
                        IF last_active # 0 THEN ToString(now - last_active) ELSE "inf",
                        "s ago">>
    IN  IF state.kind # "dict" THEN Raised(pending)
        ELSE IF status.empty
        THEN Returned(<<"Oracle bot is not running or has not reported status yet.">>,
                      pending)
        ELSE Returned(<<"Connected to The Grid: ", status.connected, NL,
                        "Agent ID: ", status.agent_id, NL,
                        "Position: ", status.position, NL,
                        "Autonomous mode: ", status.autonomous, NL,
                        "Alive: ">> \o alive, pending)

\* send_message without the test of line 71.
send_message_unchecked(hasText, text, pending, now) ==
    LET message == IF hasText THEN text ELSE <<>>
        entry == [message |-> message, from |-> "claude_code", timestamp |-> now]
    IN  Returned(<<"Message queued for Oracle: ">> \o message,
                 PendingFile("list", <<entry>>))

\* send_message that never reads the file (lines 76-80 left out).
send_message_fresh_queue(hasText, text, pending, now) ==
    LET message == IF hasText THEN text ELSE <<>>
        entry == [message |-> message, from |-> "claude_code", timestamp |-> now]
    IN  IF message = <<>> THEN Returned(<<"Error: no message provided.">>, pending)
        ELSE Returned(<<"Message queued for Oracle: ">> \o message,
                      PendingFile("list", <<entry>>))

send_message(hasText, text, pending, now) ==
    LET message == IF hasText THEN text ELSE <<>>
        loaded == IF pending.kind \in {"dict", "list"} THEN pending
                  ELSE IF pending.kind = "undecodable" THEN PendingFile("raised", <<>>)
                  ELSE PendingFile("list", <<>>)
        entry == [message |-> message, from |-> "claude_code", timestamp |-> now]
    IN  IF message = <<>> THEN Returned(<<"Error: no message provided.">>, pending)
        ELSE IF loaded.kind # "list" THEN Raised(pending)
        ELSE Returned(<<"Message queued for Oracle: ">> \o message,
                      PendingFile("list", Append(loaded.items, entry)))

\* handle_tool_call raising for a name that is none of the three tools.
handle_tool_call_strict(name, limit, hasText, text, state_file, pending, now) ==
    CASE name = "oracle_get_conversations" ->
             get_conversations(limit, state_file, pending)
      [] name = "oracle_get_status" -> get_status(state_file, pending, now)
      [] name = "oracle_send_message" -> send_message(hasText, text, pending, now)
      [] OTHER -> Raised(pending)

handle_tool_call(name, limit, hasText, text, state_file, pending, now) ==
    CASE name = "oracle_get_conversations" ->
             get_conversations(limit, state_file, pending)
      [] name = "oracle_get_status" -> get_status(state_file, pending, now)
      [] name = "oracle_send_message" -> send_message(hasText, text, pending, now)
      [] OTHER -> Returned(<<"Unknown tool: ">> \o Chars(name), pending)

(***************************************************************************)
(* Responses (lines 136-149).                                              *)
(***************************************************************************)
Result(shape, hasText, text) == [shape |-> shape, hasText |-> hasText, text |-> text]

\* What sys.stdout.write receives for the serialized message out: the header,
\* then the body.  len(out) counts characters.
Framed(out) == <<CLName, ToString(Len(out)), NL, NL>> \o out

\* One write to sys.stdout: wire is the text written, message the object that
\* was serialized (kept to state what the text ought to mean).
Written(resp) == [wire |-> Framed(json_dumps(resp)), message |-> resp]

\* send_response answering with a null id whatever id it is given.
send_response_null_id(response_id, result) ==
    Written(Doc(None, "result", result.shape, Absent, result.hasText, result.text))

send_response(response_id, result) ==
    Written(Doc(response_id, "result", result.shape, Absent, result.hasText, result.text))

send_error(response_id, code, message) ==
    Written(Doc(response_id, "error", Absent, code, TRUE, message))

(***************************************************************************)
(* The dispatch of one parsed message (lines 179-212): the frames written, *)
(* whether an exception left the block, and the pending-messages file.     *)
(***************************************************************************)
Get(tok, default) == IF tok = Absent THEN default ELSE tok

\* TOOLS (lines 96-133): the three tool descriptors, each stood for by its name.
TOOLS == <<"oracle_get_conversations", "oracle_get_status", "oracle_send_message">>

KnownMethods == {"initialize", "notifications/initialized", "tools/list", "tools/call", "ping"}

Handled(out, pending) == [out |-> out, raised |-> FALSE, pending |-> pending]

\* Lines 210-212 without the test of msg_id.
method_not_found_always(msg_id, method, pending) ==
    Handled(<<send_error(msg_id, "-32601", <<"Method not found: ">> \o Chars(method))>>,
            pending)

\* Lines 210-212 answering with a result instead of an error.
method_not_found_as_result(msg_id, method, pending) ==
    IF msg_id # None
    THEN Handled(<<send_response(msg_id, Result("content", TRUE,
                       <<"Method not found: ">> \o Chars(method)))>>, pending)
    ELSE Handled(<<>>, pending)

method_not_found(msg_id, method, pending) ==
    IF msg_id # None
    THEN Handled(<<send_error(msg_id, "-32601", <<"Method not found: ">> \o Chars(method))>>,
                 pending)
    ELSE Handled(<<>>, pending)

\* A server that answers tools/call only to a client that has written a
\* frame before (its initialize).
tools_call_after_initialize(msg_id, m, state_file, pending, now) ==
    LET tool_name == Get(m.f[3], "")
        r == handle_tool_call(tool_name, m.f[4], m.hasText, m.text,
                              state_file, pending, now)
    IN  IF nframes < 2
        THEN Handled(<<send_error(msg_id, "-32002", <<"Server not initialized">>)>>,
                     pending)
        ELSE IF m.f[3] = ListValue \/ r.raised
        THEN [out |-> <<>>, raised |-> TRUE, pending |-> pending]
        ELSE Handled(<<send_response(msg_id, Result("content", TRUE, r.text))>>,
                     r.pending)

tools_call(msg_id, m, state_file, pending, now) ==
    LET tool_name == Get(m.f[3], "")
        r == handle_tool_call(tool_name, m.f[4], m.hasText, m.text,
                              state_file, pending, now)
    IN  IF m.f[3] = ListValue \/ r.raised     \* params.get or the handler raises
        THEN [out |-> <<>>, raised |-> TRUE, pending |-> pending]
        ELSE Handled(<<send_response(msg_id, Result("content", TRUE, r.text))>>,
                     r.pending)

dispatch(m, state_file, pending, now) ==
    LET method == Get(m.f[1], "")
        msg_id == Get(m.f[2], None)
    IN  CASE ~IsObject(m) ->                  \* msg.get raises AttributeError
                 [out |-> <<>>, raised |-> TRUE, pending |-> pending]
          [] method = "initialize" ->
                 Handled(<<send_response(msg_id, Result("serverInfo", FALSE, <<>>))>>,
                         pending)
          [] method = "notifications/initialized" -> Handled(<<>>, pending)
          [] method = "tools/list" ->
                 \* {"tools": TOOLS}: the list is carried in the place of the text
                 Handled(<<send_response(msg_id, Result("tools", TRUE, TOOLS))>>, pending)
          [] method = "tools/call" -> tools_call(msg_id, m, state_file, pending, now)
          [] method = "ping" ->
                 Handled(<<send_response(msg_id, Result("{}", FALSE, <<>>))>>, pending)
          [] OTHER -> method_not_found(msg_id, method, pending)

\* Where main() goes when the handling of a frame ends, normally or in one of
\* the except clauses of lines 214-218: back to the top of the loop.
exception_escapes(raised) == IF raised THEN "done" ELSE "header"

after_frame(raised) == "header"

(***************************************************************************)
(* The client and the inputs of the model.                                 *)
(***************************************************************************)
Ids == {Absent, "7"}

Request(method, id) == Doc(method, id, Absent, Absent, FALSE, <<>>)

Call(id, name, limit, hasText, text) == Doc("tools/call", id, name, limit, hasText, text)

Requests ==
    {Request(m, i) : m \in {"initialize", "notifications/initialized", "tools/list",
                            "ping", "foo/bar", Absent}, i \in Ids}
    \cup {Call("7", "oracle_get_conversations", l, FALSE, <<>>) : l \in {Absent, "0", "1"}}
    \cup {Call(i, "oracle_get_status", Absent, FALSE, <<>>) : i \in Ids}
    \cup {Call("7", "oracle_send_message", Absent, FALSE, <<>>)}
    \cup {Call("7", "oracle_send_message", Absent, TRUE, t) :
              t \in {<<>>, <<"hello">>, <<Wide>>}}
    \cup {Call("7", "no_such_tool", Absent, FALSE, <<>>)}
    \cup {Call("7", ListValue, Absent, FALSE, <<>>)}

\* The body a client writes for a document: UTF-8 JSON, nothing escaped that
\* need not be.  (A frame of kind "good_escaped" carries the other spelling,
\* with every character outside ASCII escaped.)
ClientBody(doc) == Utf8Json(doc)

\* A well-formed frame: the header declares the body's length in bytes.
WellFormed(body) == <<CLName, ToString(ByteLen(body)), NL, NL>> \o body

FrameKinds ==
    {"good", "good_escaped", "nocl", "nocl_body", "cl_nan", "cl_zero", "cl_neg", "junk",
     "junk_wide", "nonobject", "cut_header", "cut_body", "cut_newline"}

\* The kinds that are the beginning of a frame and not all of it: the client
\* stops inside the header block, inside the JSON text of the body, or before
\* the line end that closes the body and that the header has counted.
CutKinds == {"cut_header", "cut_body", "cut_newline"}

\* The kinds whose header declares the byte length of a JSON body.
WellFormedKinds == {"good", "good_escaped"}

Frame(kind, doc) == [kind |-> kind, doc |-> doc]

Frames ==
    {Frame("good", d) : d \in Requests}
    \cup {Frame("good_escaped", d) : d \in {r \in Requests : Wide \in Range(r.text)}}
    \cup {Frame(k, NoDoc) :
              k \in FrameKinds \ (WellFormedKinds \cup {"nocl_body", "cut_body", "cut_newline"})}
    \cup {Frame(k, Request("ping", "7")) : k \in {"nocl_body", "cut_body", "cut_newline"}}

FrameChars(fr) ==
    CASE fr.kind = "good"      -> WellFormed(ClientBody(fr.doc))
      [] fr.kind = "good_escaped" -> WellFormed(json_dumps(fr.doc))
      [] fr.kind = "nocl"      -> <<OtherName, "1", NL, NL>>
      [] fr.kind = "nocl_body" -> <<OtherName, "1", NL, NL>> \o ClientBody(fr.doc)
      [] fr.kind = "cl_nan"    -> <<CLName, "abc", NL, NL>>
      [] fr.kind = "cl_zero"   -> <<CLName, "0", NL, NL>>
      [] fr.kind = "cl_neg"    -> <<CLName, "-1", NL, NL>>
      [] fr.kind = "junk"      -> WellFormed(<<LBrace, "nope">>)
      [] fr.kind = "junk_wide" -> WellFormed(<<LBrace, Wide>>)
      [] fr.kind = "nonobject" -> WellFormed(<<"5">>)
      [] fr.kind = "cut_header" -> <<CLName, "5", NL>>
      [] fr.kind = "cut_body" ->
             LET body == ClientBody(fr.doc)
             IN  <<CLName, ToString(ByteLen(body)), NL, NL>>
                   \o SubSeq(body, 1, Len(body) - 1)
      [] fr.kind = "cut_newline" ->
             LET body == ClientBody(fr.doc)
             IN  <<CLName, ToString(ByteLen(body) + 1), NL, NL>> \o body

\* Readings of time.time()
Times == {130, 160}

Conversation(t, user, oracle) == [timestamp |-> t, user |-> user, oracle |-> oracle]

Status100 ==
    [empty |-> FALSE, connected |-> "True", agent_id |-> "agent_1", position |-> "(3, 4)",
     autonomous |-> "False", last_active |-> 100]

StateFiles ==
    {StateFile("missing", <<>>, NoStatus),
     StateFile("garbage", <<>>, NoStatus),
     StateFile("undecodable", <<>>, NoStatus),
     StateFile("list", <<>>, NoStatus),
     StateFile("dict", <<>>, NoStatus),
     StateFile("dict", <<Conversation(90, "hi", "hello"), Conversation(100, Wide, "ok")>>,
               Status100),
     StateFile("dict", <<Conversation(90, Absent, "hello")>>, Status100)}

PendingFiles ==
    {PendingFile("missing", <<>>), PendingFile("garbage", <<>>),
     PendingFile("undecodable", <<>>), PendingFile("list", <<>>), PendingFile("dict", <<>>)}

\* The files at the start: any state file beside an empty queue, and any
\* pending-messages file beside a state file with conversations.
FilePairs ==
    {<<sf, PendingFile("list", <<>>)>> : sf \in StateFiles}
    \cup {<<StateFile("dict", <<Conversation(90, "hi", "hello"),
                                Conversation(100, Wide, "ok")>>, Status100), pf>> :
              pf \in PendingFiles}

NoFrame == [kind |-> "none", doc |-> NoDoc, clean |-> FALSE]

(***************************************************************************)
(* The state machine: main() (lines 152-218) and its client.               *)
(***************************************************************************)
\* The server at the top of main(), nothing read or written yet.
ServerInit ==
    /\ stdin = <<>>
    /\ eof = FALSE
    /\ pc = "header"
    /\ content_length = 0
    /\ msg = NoDoc
    /\ stdout = <<>>
    /\ stderr = 0
    /\ nframes = 0
    /\ last = NoFrame
    /\ prev = [kind |-> "none", clean |-> FALSE, raised |-> FALSE, status |-> <<>>]
    /\ got = <<>>

(***************************************************************************)
(* The memory of the bot (oracle_telegram.py, lines 107-146).  A message   *)
(* of the history is a role and a content.                                 *)
(***************************************************************************)
MaxMessages == 40   \* line 139
KeptMessages == 20  \* line 140

Said(role, content) == [role |-> role, content |-> content]

\* h[-n:]
LastMessages(h, n) == SubSeq(h, Max(1, Len(h) - n + 1), Len(h))

\* What _fallback_response returns: one of three fixed texts.
fallback_response == "fallback"

\* The API call of line 127 raised.
NoAnswer == "raised"

\* ask_claude that never cuts the history.
ask_claude_keeping_all(client, history, prompt, answer) ==
    IF ~client \/ answer = NoAnswer
    THEN [reply |-> fallback_response, history |-> history]
    ELSE [reply |-> answer,
          history |-> history \o <<Said("user", prompt), Said("assistant", answer)>>]

\* ask_claude(prompt): the text returned and state.conversation_history
\* afterwards.  answer is what the API replies, or NoAnswer when the call of
\* line 127 (or the reading of its result) raises.
ask_claude(client, history, prompt, answer) ==
    LET appended == history \o <<Said("user", prompt), Said("assistant", answer)>>
    IN  IF ~client THEN [reply |-> fallback_response, history |-> history]
        ELSE IF answer = NoAnswer THEN [reply |-> fallback_response, history |-> history]
        ELSE [reply |-> answer,
              history |-> IF Len(appended) > MaxMessages
                          THEN LastMessages(appended, KeptMessages) ELSE appended]

\* 1 when the API replied, else 0.
Replied(client, answer) == IF client /\ answer # NoAnswer THEN 1 ELSE 0

(***************************************************************************)
(* The autonomous loops (lines 495-511, 537-572).                          *)
(***************************************************************************)
MaxLoops == 2       \* tasks that cmd_explore creates
MaxReplies == 22    \* replies of the Claude API

Task(at, acted) == [at |-> at, acted |-> acted]

\* A command has been handled: what the tasks did before it is forgotten.
after_command(tasks) == [i \in 1..Len(tasks) |-> Task(tasks[i].at, FALSE)]

\* asyncio.create_task(autonomous_loop(...)): the new task has not run yet.
create_task(tasks) == Append(tasks, Task("test", FALSE))

\* No loop, an empty history.
ExplorerInit ==
    /\ loops = <<>>
    /\ conversation_history = <<>>
    /\ replies = 0

(***************************************************************************)
(* The MonWorld MCP server after the module is loaded (lines 38-43).       *)
(***************************************************************************)
NoText == [name |-> "none", text |-> "none"]

SessionInit ==
    /\ session = [agent_id |-> None, token |-> None, position |-> None]
    /\ api_calls = <<>>
    /\ mcp_text = NoText

(***************************************************************************)
(* The agent after MonWorldAgent() (agent.py, lines 34-37).                *)
(***************************************************************************)
action_cooldown == 2    \* line 37, in seconds
Started == 10           \* the clock when the agent is constructed

AgentInit ==
    /\ agent_state = None
    /\ last_action_time = 0
    /\ clock = Started
    /\ posted = <<>>
    /\ returned = None

\* The programs that a specification leaves out have just been started, the
\* bot without an API key.
OthersInit ==
    /\ ExplorerInit
    /\ claude_client = FALSE
    /\ SessionInit
    /\ credentials = FALSE
    /\ AgentInit

\* The bot after the module is loaded (state = OracleState()), no relay cycle
\* under way.
BotInit ==
    /\ oracle_state = [connected |-> FALSE, autonomous |-> FALSE]
    /\ relay_pc = "idle"
    /\ relay_items = <<>>
    /\ relay_read = <<>>
    /\ relay_sent = <<>>
    /\ logged = <<>>
    /\ relay_cut = <<>>
    /\ relay_again = <<>>

NoResult == [name |-> "none", raised |-> FALSE, text |-> <<>>, now |-> 0]

\* No file operation of either process is under way.
FsInit ==
    /\ tool_pc = "idle"
    /\ tool_pending = <<>>
    /\ tool_result = NoResult
    /\ log_pc = "idle"
    /\ log_shared = StateFile("missing", <<>>, NoStatus)
    /\ log_before = StateFile("missing", <<>>, NoStatus)
    /\ telegram = <<>>
    /\ confirmed = <<>>

Init ==
    /\ ServerInit
    /\ BotInit
    /\ FsInit
    /\ OthersInit
    /\ \E files \in FilePairs :
           /\ shared_state_file = files[1]
           /\ pending_messages_file = files[2]

\* A tools/call request for the tool of that name.
ToolCall(m, name) == IsObject(m) /\ m.f[1] = "tools/call" /\ m.f[3] = name

\* The text of the answer to oracle_get_status when that is what the server
\* did last (requests dispatched: reqs, frames written: out); else no text.
StatusText(reqs, out) ==
    IF reqs # <<>> /\ out # <<>> /\ ToolCall(Last(reqs), "oracle_get_status")
    THEN Last(out).message.text
    ELSE <<>>

\* The server is between two frames and has read all that was written.
AtBoundary == pc = "header" /\ stdin = <<>>

\* sys.stdin.read(content_length) can return without more input.
CanReadBody == content_length > 0 /\ Len(stdin) >= content_length

\* The server waits for input.
Blocked ==
    \/ pc = "header" /\ HeaderEnd(stdin) = 0
    \/ pc = "body" /\ ~CanReadBody

\* The client writes one frame.  Reads block until their input is there, so
\* what the server reads does not depend on when the client writes; the model
\* lets the client write when the server waits.
ClientWrite(fr) ==
    /\ ~eof
    /\ Blocked
    /\ nframes < MaxFrames
    /\ stdin' = stdin \o FrameChars(fr)
    /\ nframes' = nframes + 1
    /\ prev' = [kind |-> last.kind, clean |-> last.clean, raised |-> stderr > 0,
                status |-> StatusText(got, stdout)]
    /\ last' = [kind |-> fr.kind, doc |-> fr.doc, clean |-> AtBoundary]
    /\ got' = <<>>
    /\ stdout' = <<>>
    /\ stderr' = 0
    /\ UNCHANGED <<eof, pc, content_length, msg, shared_state_file, pending_messages_file>>
    /\ UNCHANGED bot
    /\ UNCHANGED fs
    /\ UNCHANGED <<explorer, monworld, agent>>

\* The client closes the stream.
ClientClose ==
    /\ ~eof
    /\ Blocked
    /\ eof' = TRUE
    /\ UNCHANGED <<stdin, pc, content_length, msg, stdout, stderr, shared_state_file,
                   pending_messages_file, nframes, last, prev, got>>
    /\ UNCHANGED bot
    /\ UNCHANGED fs
    /\ UNCHANGED <<explorer, monworld, agent>>

\* Lines 156-173: read the header block and find content_length.
ReadHeader ==
    /\ pc = "header"
    /\ HeaderEnd(stdin) > 0 \/ eof
    /\ LET e == HeaderEnd(stdin)
           p == ParseHeader(SubSeq(stdin, 1, e))
       IN  IF e = 0
           THEN /\ pc' = "done"                 \* readline() returned "": return
                /\ stdin' = <<>>
                /\ UNCHANGED <<content_length, stderr>>
           ELSE /\ stdin' = SubSeq(stdin, e + 1, Len(stdin))
                /\ content_length' = p.content_length
                /\ stderr' = IF p.raised THEN stderr + 1 ELSE stderr
                /\ pc' = IF p.raised THEN after_frame(TRUE)
                         ELSE IF p.content_length = 0 THEN "header" ELSE "body"
    /\ UNCHANGED <<eof, msg, stdout, shared_state_file, pending_messages_file,
                   nframes, last, prev, got>>
    /\ UNCHANGED bot
    /\ UNCHANGED fs
    /\ UNCHANGED <<explorer, monworld, agent>>

\* Lines 175-177: read the body and parse it.
ReadBody ==
    /\ pc = "body"
    /\ CanReadBody \/ eof
    /\ LET body == IF CanReadBody THEN SubSeq(stdin, 1, content_length) ELSE stdin
           r == json_loads(body)
       IN  /\ stdin' = SubSeq(stdin, Len(body) + 1, Len(stdin))
           /\ IF r.ok
              THEN msg' = r.obj /\ pc' = "dispatch"
              ELSE msg' = msg /\ pc' = "header"  \* json.JSONDecodeError: continue
    /\ UNCHANGED <<eof, content_length, stdout, stderr, shared_state_file,
                   pending_messages_file, nframes, last, prev, got>>
    /\ UNCHANGED bot
    /\ UNCHANGED fs
    /\ UNCHANGED <<explorer, monworld, agent>>

\* Lines 179-218: dispatch the message and write the response.
Dispatch(now) ==
    /\ pc = "dispatch"
    /\ LET d == dispatch(msg, shared_state_file, pending_messages_file, now)
       IN  /\ stdout' = stdout \o d.out
           /\ stderr' = IF d.raised THEN stderr + 1 ELSE stderr
           /\ pending_messages_file' = d.pending
           /\ pc' = after_frame(d.raised)
    /\ got' = Append(got, msg)
    /\ UNCHANGED <<stdin, eof, content_length, msg, shared_state_file, nframes, last, prev>>
    /\ UNCHANGED bot
    /\ UNCHANGED fs
    /\ UNCHANGED <<explorer, monworld, agent>>

Next ==
    \/ \E fr \in Frames : ClientWrite(fr)
    \/ ClientClose
    \/ ReadHeader
    \/ ReadBody
    \/ \E now \in Times : Dispatch(now)

Spec == Init /\ [][Next]_vars

(***************************************************************************)
(* The collaborator: the Telegram bot (agents/simple-bot/oracle_telegram.py)*)
(* that writes the state file and drains the queue file.                   *)
(***************************************************************************)
MaxConversations == 50

\* str() of a bool
BoolStr(b) == IF b THEN "True" ELSE "False"

\* Lines 185-191: the status block written with every conversation.
BotStatus(st, now) ==
    [empty |-> FALSE, connected |-> BoolStr(st.connected),
     agent_id |-> IF st.connected THEN "agent_1" ELSE "",
     position |-> "{'x': 0, 'z': 0}", autonomous |-> BoolStr(st.autonomous),
     last_active |-> now]

\* _log_conversation without line 182.
log_conversation_unbounded(file, user_msg, oracle_reply, st, now) ==
    LET shared == IF file.kind = "missing" THEN StateFile("dict", <<>>, NoStatus) ELSE file
    IN  IF shared.kind # "dict" THEN file
        ELSE StateFile("dict",
                       Append(shared.conversations, Conversation(now, user_msg, oracle_reply)),
                       BotStatus(st, now))

\* _log_conversation without lines 185-191.
log_conversation_without_status(file, user_msg, oracle_reply, st, now) ==
    LET shared == IF file.kind = "missing" THEN StateFile("dict", <<>>, NoStatusKey) ELSE file
    IN  IF shared.kind # "dict" THEN file
        ELSE StateFile("dict",
                       LastSlice(Append(shared.conversations,
                                        Conversation(now, user_msg, oracle_reply)),
                                 MaxConversations),
                       shared.status)

\* _log_conversation with shared["status"].update(...) at line 185.
log_conversation_updating_status(file, user_msg, oracle_reply, st, now) ==
    LET shared == IF file.kind = "missing" THEN StateFile("dict", <<>>, NoStatus) ELSE file
        old == shared.status
        new == BotStatus(st, now)
    IN  IF shared.kind # "dict" THEN file
        ELSE StateFile("dict",
                       LastSlice(Append(shared.conversations,
                                        Conversation(now, user_msg, oracle_reply)),
                                 MaxConversations),
                       [f \in (DOMAIN old \cup DOMAIN new) \ {"absent"} |->
                            IF f \in DOMAIN new THEN new[f] ELSE old[f]])

\* _log_conversation (lines 164-195): the state file afterwards.  When the
\* file is there and is not a JSON object, json.loads or the append raises,
\* line 194 catches it and nothing is written.
log_conversation(file, user_msg, oracle_reply, st, now) ==
    LET shared == IF file.kind = "missing" THEN StateFile("dict", <<>>, NoStatus) ELSE file
        entry == Conversation(now, user_msg, oracle_reply)
    IN  IF shared.kind # "dict" THEN file
        ELSE StateFile("dict",
                       LastSlice(Append(shared.conversations, entry), MaxConversations),
                       BotStatus(st, now))

\* Line 667: the queue file after write_text("[]").
relay_clear(pending) == PendingFile("list", <<>>)

\* An except clause that empties the queue file.
cleared_on_failure(pending) == PendingFile("list", <<>>)

\* Lines 668-669: the queue file after a send has raised (nothing is written).
on_failed_send(pending) == pending

\* What the server puts into the queue in the model of the two processes.
BridgeRequests ==
    {Call("7", "oracle_send_message", Absent, TRUE, t) : t \in {<<>>, <<"hello">>}}
    \cup {Call("7", "oracle_get_status", Absent, FALSE, <<>>)}

\* handle_message (lines 575-607) for the k-th user message: its text is the
\* numeral k, and the clock reads k when it is logged.  ask_claude is called
\* for the reply and, when connected, for its in-world summary.
handle_message ==
    /\ Len(logged) < MaxTurns
    /\ LET k == Len(logged) + 1
           user_message == ToString(k)
           first == ask_claude(claude_client, conversation_history, user_message, "reply")
           second == IF oracle_state.connected
                     THEN ask_claude(claude_client, first.history, "summarize", "summary")
                     ELSE first
           reply == first.reply
       IN  /\ shared_state_file' =
                  log_conversation(shared_state_file, user_message, reply, oracle_state, k)
           /\ logged' = Append(logged, Conversation(k, user_message, reply))
           /\ conversation_history' = second.history
           /\ replies' = replies + Replied(claude_client, "reply")
                                 + (IF oracle_state.connected
                                    THEN Replied(claude_client, "summary") ELSE 0)
    /\ UNCHANGED <<pending_messages_file, oracle_state, relay_pc, relay_items, relay_read,
                   relay_sent, relay_cut, relay_again>>
    /\ UNCHANGED server
    /\ UNCHANGED fs
    /\ UNCHANGED <<loops, claude_client, monworld, agent>>

\* cmd_connect (lines 364-386) when enter_world() succeeds; ask_claude is
\* called for the arrival message.
cmd_connect ==
    /\ ~oracle_state.connected
    /\ oracle_state' = [oracle_state EXCEPT !.connected = TRUE]
    /\ conversation_history' =
           ask_claude(claude_client, conversation_history, "arrive", "arrival").history
    /\ replies' = replies + Replied(claude_client, "arrival")
    /\ UNCHANGED <<shared_state_file, pending_messages_file, relay_pc, relay_items,
                   relay_read, relay_sent, relay_cut, relay_again, logged>>
    /\ UNCHANGED server
    /\ UNCHANGED fs
    /\ UNCHANGED <<loops, claude_client, monworld, agent>>

\* cmd_explore (lines 495-505): sets the flag and, with no test of the loops
\* that exist, creates a task.
cmd_explore ==
    /\ oracle_state.connected
    /\ Len(loops) < MaxLoops
    /\ oracle_state' = [oracle_state EXCEPT !.autonomous = TRUE]
    /\ loops' = create_task(after_command(loops))
    /\ UNCHANGED <<shared_state_file, pending_messages_file, relay_pc, relay_items,
                   relay_read, relay_sent, relay_cut, relay_again, logged>>
    /\ UNCHANGED server
    /\ UNCHANGED fs
    /\ UNCHANGED <<conversation_history, claude_client, replies, monworld, agent>>

\* cmd_stop (lines 508-511)
cmd_stop ==
    /\ oracle_state' = [oracle_state EXCEPT !.autonomous = FALSE]
    /\ loops' = after_command(loops)
    /\ UNCHANGED <<shared_state_file, pending_messages_file, relay_pc, relay_items,
                   relay_read, relay_sent, relay_cut, relay_again, logged>>
    /\ UNCHANGED server
    /\ UNCHANGED fs
    /\ UNCHANGED <<conversation_history, claude_client, replies, monworld, agent>>

\* check_pending_messages, lines 650-658: read the queue file.  Nothing
\* follows when the file is missing, cannot be read, or holds nothing.
check_pending_read ==
    /\ relay_pc = "idle"
    /\ IF pending_messages_file.kind = "list" /\ pending_messages_file.items # <<>>
       THEN /\ relay_pc' = "sending"
            /\ relay_items' = pending_messages_file.items
            /\ relay_read' = pending_messages_file.items
            /\ relay_sent' = <<>>
            /\ relay_cut' = <<>>
            /\ relay_again' = relay_cut
       ELSE UNCHANGED <<relay_pc, relay_items, relay_read, relay_sent, relay_cut,
                        relay_again>>
    /\ UNCHANGED <<shared_state_file, pending_messages_file, oracle_state, logged>>
    /\ UNCHANGED server
    /\ UNCHANGED fs
    /\ UNCHANGED <<explorer, monworld, agent>>

\* Lines 658-664 and 668-669: one turn of the for loop.  ok tells whether
\* ctx.bot.send_message returns or raises.
check_pending_send(ok) ==
    /\ relay_pc = "sending"
    /\ relay_items # <<>>
    /\ LET text == Head(relay_items).message
       IN  IF text = <<>> \/ ok
           THEN /\ relay_items' = Tail(relay_items)
                /\ relay_sent' = IF text = <<>> THEN relay_sent ELSE Append(relay_sent, text)
                /\ UNCHANGED <<relay_pc, relay_cut, relay_again, pending_messages_file>>
           ELSE /\ relay_pc' = "idle"
                /\ relay_items' = <<>>
                /\ relay_cut' = relay_sent
                /\ relay_again' = <<>>
                /\ pending_messages_file' = on_failed_send(pending_messages_file)
                /\ UNCHANGED relay_sent
    /\ UNCHANGED <<shared_state_file, oracle_state, relay_read, logged>>
    /\ UNCHANGED server
    /\ UNCHANGED fs
    /\ UNCHANGED <<explorer, monworld, agent>>

\* A bot whose restart begins with an empty queue file.
crash_clears_queue ==
    /\ relay_pc = "sending"
    /\ relay_pc' = "idle"
    /\ relay_items' = <<>>
    /\ relay_cut' = relay_sent
    /\ relay_again' = <<>>
    /\ pending_messages_file' = PendingFile("list", <<>>)
    /\ UNCHANGED <<shared_state_file, oracle_state, relay_read, relay_sent, logged>>
    /\ UNCHANGED server
    /\ UNCHANGED fs
    /\ UNCHANGED <<explorer, monworld, agent>>

\* The bot process dies in a cycle before line 667 is reached, and is started
\* again: the cycle's local list is gone, the files are as they were.
check_pending_crash ==
    /\ relay_pc = "sending"
    /\ relay_pc' = "idle"
    /\ relay_items' = <<>>
    /\ relay_cut' = relay_sent
    /\ relay_again' = <<>>
    /\ UNCHANGED <<shared_state_file, pending_messages_file, oracle_state, relay_read,
                   relay_sent, logged>>
    /\ UNCHANGED server
    /\ UNCHANGED fs
    /\ UNCHANGED <<explorer, monworld, agent>>

\* Lines 666-667: the loop is over, the queue file is cleared.
check_pending_clear ==
    /\ relay_pc = "sending"
    /\ relay_items = <<>>
    /\ pending_messages_file' = relay_clear(pending_messages_file)
    /\ relay_pc' = "idle"
    /\ relay_again' = <<>>
    /\ UNCHANGED <<shared_state_file, oracle_state, relay_items, relay_read, relay_sent,
                   relay_cut, logged>>
    /\ UNCHANGED server
    /\ UNCHANGED fs
    /\ UNCHANGED <<explorer, monworld, agent>>

\* The server process handles one request (lines 179-212 of
\* oracle_mcp_server.py); of its effects the two processes share the files.
ServerRequest(m, now) ==
    /\ pending_messages_file.kind = "list" => Len(pending_messages_file.items) < MaxQueue
    /\ pending_messages_file' =
           dispatch(m, shared_state_file, pending_messages_file, now).pending
    /\ UNCHANGED <<shared_state_file>>
    /\ UNCHANGED bot
    /\ UNCHANGED fs
    /\ UNCHANGED server
    /\ UNCHANGED <<explorer, monworld, agent>>

\* The two processes start with neither file written.
BridgeInit ==
    /\ ServerInit
    /\ BotInit
    /\ FsInit
    /\ OthersInit
    /\ shared_state_file = StateFile("missing", <<>>, NoStatus)
    /\ pending_messages_file = PendingFile("missing", <<>>)

\* The bridge is followed through the first /explore of a session; what more
\* of them do to the loops is followed in LoopSpec.
BridgeNext ==
    \/ handle_message
    \/ cmd_connect
    \/ loops = <<>> /\ cmd_explore
    \/ cmd_stop
    \/ check_pending_read
    \/ \E ok \in BOOLEAN : check_pending_send(ok)
    \/ check_pending_crash
    \/ check_pending_clear
    \/ \E m \in BridgeRequests, now \in Times : ServerRequest(m, now)

BridgeSpec == BridgeInit /\ [][BridgeNext]_vars

(***************************************************************************)
(* The queue file under the file operations of the two processes.  The     *)
(* server's oracle_send_message reads the file (line 78) and writes it     *)
(* (line 88); the bot's check_pending_messages reads it (line 655) and     *)
(* writes it (line 667).  Path.write_text opens the file with mode 'w',    *)
(* which empties it, and then writes the text from offset 0.  Each of      *)
(* these file operations is one step, and the steps of the two processes   *)
(* interleave.                                                             *)
(***************************************************************************)
MaxSends == 3       \* messages the server is asked to queue
MaxRelays == 4      \* texts the bot sends to Telegram

\* A file that open(mode='w') has emptied: no text, which is not JSON.
Emptied == PendingFile("empty", <<>>)

\* The queue file after a writer that has opened it writes doc from offset 0.
\* Nothing, or a shorter text, was in the file: the file holds doc.  The bot's
\* "[]" over the server's longer list leaves the tail of the list behind it.
write_text(file, doc) ==
    IF file.kind = "empty" \/ doc.items # <<>> THEN doc ELSE PendingFile("garbage", <<>>)

\* oracle_send_message, lines 70-86, for the j-th message (its text is the
\* numeral j): the queue file is read and the entry appended to the local list.
tool_send_read(now) ==
    /\ tool_pc = "idle"
    /\ Len(confirmed) < MaxSends
    /\ LET r == send_message(TRUE, <<ToString(Len(confirmed) + 1)>>,
                             pending_messages_file, now)
       IN  /\ ~r.raised
           /\ tool_pending' = r.pending.items
    /\ tool_pc' = "read"
    /\ UNCHANGED <<shared_state_file, pending_messages_file, tool_result, log_pc,
                   log_shared, log_before, telegram, confirmed>>
    /\ UNCHANGED bot
    /\ UNCHANGED server
    /\ UNCHANGED <<explorer, monworld, agent>>

\* Line 88, write_text: the file is opened.
tool_send_open ==
    /\ tool_pc = "read"
    /\ tool_pc' = "truncated"
    /\ pending_messages_file' = Emptied
    /\ UNCHANGED <<shared_state_file, tool_pending, tool_result, log_pc, log_shared,
                   log_before, telegram, confirmed>>
    /\ UNCHANGED bot
    /\ UNCHANGED server
    /\ UNCHANGED <<explorer, monworld, agent>>

\* Lines 88-89: the list is written and the confirmation returned.
tool_send_write ==
    /\ tool_pc = "truncated"
    /\ tool_pc' = "idle"
    /\ pending_messages_file' =
           write_text(pending_messages_file, PendingFile("list", tool_pending))
    /\ confirmed' = Append(confirmed, Last(tool_pending).message)
    /\ tool_pending' = <<>>
    /\ UNCHANGED <<shared_state_file, tool_result, log_pc, log_shared, log_before,
                   telegram>>
    /\ UNCHANGED bot
    /\ UNCHANGED server
    /\ UNCHANGED <<explorer, monworld, agent>>

\* check_pending_messages, lines 658-664: one turn of the for loop in which
\* ctx.bot.send_message returns, and the text is in the Telegram chat.
poll_send ==
    /\ relay_pc = "sending"
    /\ relay_items # <<>>
    /\ Len(telegram) < MaxRelays
    /\ LET text == Head(relay_items).message
       IN  /\ relay_items' = Tail(relay_items)
           /\ relay_sent' = IF text = <<>> THEN relay_sent ELSE Append(relay_sent, text)
           /\ telegram' = IF text = <<>> THEN telegram ELSE Append(telegram, text)
    /\ UNCHANGED <<shared_state_file, pending_messages_file, oracle_state, relay_pc,
                   relay_read, relay_cut, relay_again, logged, tool_pc, tool_pending,
                   tool_result, log_pc, log_shared, log_before, confirmed>>
    /\ UNCHANGED server
    /\ UNCHANGED <<explorer, monworld, agent>>

\* Lines 666-667, write_text("[]"): the loop is over, the file is opened.
poll_open ==
    /\ relay_pc = "sending"
    /\ relay_items = <<>>
    /\ relay_pc' = "clearing"
    /\ pending_messages_file' = Emptied
    /\ UNCHANGED <<shared_state_file, oracle_state, relay_items, relay_read, relay_sent,
                   relay_cut, relay_again, logged>>
    /\ UNCHANGED fs
    /\ UNCHANGED server
    /\ UNCHANGED <<explorer, monworld, agent>>

\* Line 667: "[]" is written.
poll_write ==
    /\ relay_pc = "clearing"
    /\ relay_pc' = "idle"
    /\ pending_messages_file' =
           write_text(pending_messages_file, relay_clear(pending_messages_file))
    /\ UNCHANGED <<shared_state_file, oracle_state, relay_items, relay_read, relay_sent,
                   relay_cut, relay_again, logged>>
    /\ UNCHANGED fs
    /\ UNCHANGED server
    /\ UNCHANGED <<explorer, monworld, agent>>

QueueInit == BridgeInit

QueueNext ==
    \/ \E now \in Times : tool_send_read(now)
    \/ tool_send_open
    \/ tool_send_write
    \/ check_pending_read
    \/ poll_send
    \/ poll_open
    \/ poll_write

QueueSpec == QueueInit /\ [][QueueNext]_vars

(***************************************************************************)
(* The state file under the file operations of the two processes.  The     *)
(* bot's _log_conversation reads the file (line 172) and writes it with    *)
(* write_text (line 193): the file is opened, which empties it, and then   *)
(* the document is written.  The server's oracle_get_conversations and     *)
(* oracle_get_status read the file (line 25) at any point in between.      *)
(***************************************************************************)
MaxLogs == 2        \* user messages the bot handles

\* The state file that open(mode='w') has emptied.
EmptiedState == StateFile("empty", <<>>, NoStatus)

\* A status block from an earlier writer: it has a field that lines 185-191
\* do not write, and no time of last activity.
OldStatus ==
    [empty |-> FALSE, connected |-> "True", agent_id |-> "agent_9", position |-> "(3, 4)",
     autonomous |-> "True", last_active |-> 0, objective |-> "explore"]

\* The state file when the bot starts: none, one that is not JSON, and two
\* left by earlier runs.
LogFiles ==
    {StateFile("missing", <<>>, NoStatus),
     StateFile("garbage", <<>>, NoStatus),
     StateFile("dict", <<Conversation(0, "hi", "hello")>>, OldStatus),
     StateFile("dict", <<Conversation(0, "hi", "hello")>>, NoStatusKey)}

\* The clock readings at the server's tool calls.
StatusTimes == {30, 60, 61, 62}

\* handle_message (lines 575-607) for the k-th user message, up to the open
\* of line 193.  When lines 170-192 raise, line 194 catches it and the file
\* is not opened.
log_open ==
    /\ log_pc = "idle"
    /\ Len(logged) < MaxLogs
    /\ LET k == Len(logged) + 1
           user_message == ToString(k)
           reply == "reply"
           shared == log_conversation(shared_state_file, user_message, reply, oracle_state, k)
       IN  /\ logged' = Append(logged, Conversation(k, user_message, reply))
           /\ IF shared = shared_state_file
              THEN UNCHANGED <<shared_state_file, log_pc, log_shared, log_before>>
              ELSE /\ log_pc' = "truncated"
                   /\ log_shared' = shared
                   /\ log_before' = shared_state_file
                   /\ shared_state_file' = EmptiedState
    /\ UNCHANGED <<pending_messages_file, oracle_state, relay_pc, relay_items, relay_read,
                   relay_sent, relay_cut, relay_again, tool_pc, tool_pending, tool_result,
                   telegram, confirmed>>
    /\ UNCHANGED server
    /\ UNCHANGED <<explorer, monworld, agent>>

\* Line 193: the document is written.
log_write ==
    /\ log_pc = "truncated"
    /\ log_pc' = "idle"
    /\ shared_state_file' = log_shared
    /\ UNCHANGED <<pending_messages_file, tool_pc, tool_pending, tool_result, log_shared,
                   log_before, telegram, confirmed>>
    /\ UNCHANGED bot
    /\ UNCHANGED server
    /\ UNCHANGED <<explorer, monworld, agent>>

\* The server handles a tools/call of one of the two reading tools (lines
\* 34-67) and returns its text.
tool_get(name, now) ==
    /\ tool_pc = "idle"
    /\ LET r == handle_tool_call(name, Absent, FALSE, <<>>, shared_state_file,
                                 pending_messages_file, now)
       IN  tool_result' = [name |-> name, raised |-> r.raised, text |-> r.text, now |-> now]
    /\ UNCHANGED <<shared_state_file, pending_messages_file, tool_pc, tool_pending, log_pc,
                   log_shared, log_before, telegram, confirmed>>
    /\ UNCHANGED bot
    /\ UNCHANGED server
    /\ UNCHANGED <<explorer, monworld, agent>>

StateInit ==
    /\ ServerInit
    /\ BotInit
    /\ FsInit
    /\ OthersInit
    /\ shared_state_file \in LogFiles
    /\ pending_messages_file = PendingFile("missing", <<>>)

\* The bot's handlers run on one event loop, and _log_conversation has no
\* await: no other handler of the bot runs between its read and its write.
StateNext ==
    \/ log_open
    \/ log_write
    \/ log_pc = "idle" /\ cmd_connect
    \/ log_pc = "idle" /\ cmd_explore
    \/ log_pc = "idle" /\ cmd_stop
    \/ \E name \in {"oracle_get_conversations", "oracle_get_status"}, now \in StatusTimes :
           tool_get(name, now)

StateSpec == StateInit /\ [][StateNext]_vars

(***************************************************************************)
(* The autonomous loops of the bot (oracle_telegram.py, lines 537-572).    *)
(* The handlers and the loops run on one event loop: a task runs from one  *)
(* await to the next without any other code of the bot in between.         *)
(***************************************************************************)

\* A loop that goes on until the bot is disconnected.
while_connected(st) == st.connected

\* Line 539: while state.autonomous and state.connected
while_condition(st) == st.autonomous /\ st.connected

\* One iteration of task i up to its first await (lines 539-566): the world
\* is read, ask_claude_for_action asks for a decision, and a CHAT or MOVE is
\* submitted with do_action.  The j-th reply of the API is the text j;
\* decision is the action it names.  Without a reply the action is IDLE.
loop_iterate(i, decision, ok) ==
    /\ loops[i].at = "test"
    /\ while_condition(oracle_state)
    /\ (claude_client /\ ok) => replies < MaxReplies
    /\ LET answer == IF ok THEN ToString(replies + 1) ELSE NoAnswer
           raw == ask_claude(claude_client, conversation_history, "decide", answer)
           action == IF raw.reply = fallback_response THEN "IDLE" ELSE decision
       IN  /\ conversation_history' = raw.history
           /\ replies' = replies + Replied(claude_client, answer)
           /\ loops' = [loops EXCEPT ![i] =
                            Task("asleep", @.acted \/ action \in {"CHAT", "MOVE"})]
    /\ UNCHANGED <<shared_state_file, pending_messages_file, claude_client>>
    /\ UNCHANGED <<server, bot, fs, monworld, agent>>

\* The await of task i ends (lines 550, 562, 566, 570): back to line 539.
loop_wake(i) ==
    /\ loops[i].at = "asleep"
    /\ loops' = [loops EXCEPT ![i].at = "test"]
    /\ UNCHANGED <<shared_state_file, pending_messages_file, conversation_history,
                   claude_client, replies>>
    /\ UNCHANGED <<server, bot, fs, monworld, agent>>

\* Task i finds the condition of line 539 false and ends (line 572).
loop_end(i) ==
    /\ loops[i].at = "test"
    /\ ~while_condition(oracle_state)
    /\ loops' = [loops EXCEPT ![i].at = "ended"]
    /\ UNCHANGED <<shared_state_file, pending_messages_file, conversation_history,
                   claude_client, replies>>
    /\ UNCHANGED <<server, bot, fs, monworld, agent>>

\* The bot has been started, with or without an API key.
LoopInit ==
    /\ ServerInit
    /\ BotInit
    /\ FsInit
    /\ ExplorerInit
    /\ claude_client \in BOOLEAN
    /\ SessionInit
    /\ credentials = FALSE
    /\ AgentInit
    /\ shared_state_file = StateFile("missing", <<>>, NoStatus)
    /\ pending_messages_file = PendingFile("missing", <<>>)

Decisions == {"CHAT", "MOVE", "IDLE"}

LoopNext ==
    \/ cmd_connect
    \/ cmd_explore
    \/ cmd_stop
    \/ \E i \in 1..Len(loops), decision \in Decisions, ok \in BOOLEAN :
           loop_iterate(i, decision, ok)
    \/ \E i \in 1..Len(loops) : loop_wake(i)
    \/ \E i \in 1..Len(loops) : loop_end(i)

LoopSpec == LoopInit /\ [][LoopNext]_vars

\* The event loop resumes a task whose await has ended, and runs a task that
\* is ready.
LoopFairness ==
    \A i \in 1..MaxLoops :
        /\ WF_vars(i \in 1..Len(loops) /\ loop_wake(i))
        /\ WF_vars(i \in 1..Len(loops) /\ loop_end(i))

LoopLive == LoopSpec /\ LoopFairness

(***************************************************************************)
(* The MonWorld MCP server (agents/mcp-server/monworld_mcp.py): call_tool, *)
(* lines 212-382.  A tool returns one text; the texts are stood for by     *)
(* their fixed parts.  result is what the API does with the request the    *)
(* tool sends: "ok" (the answer the tool hopes for), "error" (any other    *)
(* answer, or no answer), and for monworld_enter "partial" (an answer with *)
(* an agentId and no token).                                               *)
(***************************************************************************)
MaxCalls == 2       \* HTTP requests the server makes

NotConnected == "Error: Not connected. Use monworld_enter first."
NotLoggedIn == "Error: Not logged in. Use monworld_enter first."

\* One HTTP request: where it goes and its Authorization header.
Request_to(endpoint, authorization) ==
    [endpoint |-> endpoint, authorization |-> authorization]

\* The header api_call adds with auth=True (lines 51-52).
Bearer(s) == IF s.token # None THEN "Bearer token" ELSE Absent

\* What a tool does: the session afterwards, the requests made, the text.
Did(s, calls, text) == [session |-> s, calls |-> calls, text |-> text]

monworld_enter(s, configured, result) ==
    LET call == Request_to("/v1/agents/enter", Absent)
    IN  IF ~configured
        THEN Did(s, <<>>, "Error: AGENT_WALLET and ERC8004_AGENT_ID environment variables required.")
        ELSE CASE result = "ok" ->
                      Did([agent_id |-> "agent", token |-> "token", position |-> "spawn"],
                          <<call>>, "Successfully entered MonWorld!")
               [] result = "partial" ->     \* line 238 raises KeyError after line 237
                      Did([s EXCEPT !.agent_id = "agent"], <<call>>, "raised")
               [] OTHER -> Did(s, <<call>>, "Failed to enter: ")

\* monworld_move and monworld_chat (lines 270-299)
monworld_action(s, result, done, failed, moves) ==
    IF s.token = None THEN Did(s, <<>>, NotConnected)
    ELSE LET call == Request_to("/v1/agents/action", Bearer(s))
         IN  IF result = "ok"
             THEN Did(IF moves THEN [s EXCEPT !.position = "there"] ELSE s, <<call>>, done)
             ELSE Did(s, <<call>>, failed)

monworld_give_reputation(s, result) ==
    IF s.token = None THEN Did(s, <<>>, NotConnected)
    ELSE LET call == Request_to("/v1/reputation/feedback", Bearer(s))
         IN  Did(s, <<call>>, IF result = "ok" THEN "Reputation feedback sent to "
                              ELSE "Feedback failed: ")

\* Line 358 tests whether session has the key "token"; it always has
\* (line 41).  The header is built from session['token'] as it is.
monworld_activate_beacon(s, result) ==
    LET call == Request_to("/v1/world/objective/contribute",
                           IF s.token = None THEN "Bearer None" ELSE "Bearer token")
    IN  IF "token" \notin DOMAIN s THEN Did(s, <<>>, NotLoggedIn)
        ELSE Did(s, <<call>>, IF result = "ok" THEN "Result: " ELSE "Error: ")

monworld_status(s) ==
    IF s.agent_id = None
    THEN Did(s, <<>>, "Not connected to MonWorld. Use monworld_enter to join.")
    ELSE IF s.position = None THEN Did(s, <<>>, "raised")   \* None has no .get
    ELSE Did(s, <<>>, "Connected to MonWorld")

\* The tools that read the world without a token.
monworld_get(s, endpoint, result, done, failed) ==
    Did(s, <<Request_to(endpoint, Absent)>>, IF result = "ok" THEN done ELSE failed)

Tools == {"monworld_enter", "monworld_get_state", "monworld_move", "monworld_chat",
          "monworld_get_agent", "monworld_give_reputation", "monworld_status",
          "monworld_get_objective", "monworld_activate_beacon", "monworld_get_skill"}

tool(name, s, configured, result) ==
    CASE name = "monworld_enter" -> monworld_enter(s, configured, result)
      [] name = "monworld_get_state" ->
             monworld_get(s, "/v1/world/state", result, "World State", "Error: ")
      [] name = "monworld_move" ->
             monworld_action(s, result, "Moving to ", "Move failed: ", TRUE)
      [] name = "monworld_chat" ->
             monworld_action(s, result, "Message sent: ", "Chat failed: ", FALSE)
      [] name = "monworld_get_agent" ->
             monworld_get(s, "/v1/agents/", result, "Agent: ", "Agent not found: ")
      [] name = "monworld_give_reputation" -> monworld_give_reputation(s, result)
      [] name = "monworld_status" -> monworld_status(s)
      [] name = "monworld_get_objective" ->
             monworld_get(s, "/v1/world/objective", result, "objective", "Error: ")
      [] name = "monworld_activate_beacon" -> monworld_activate_beacon(s, result)
      [] name = "monworld_get_skill" ->
             monworld_get(s, "/v1/skill", result, "skill", "Error: ")
      [] OTHER -> Did(s, <<>>, "Unknown tool: ")

\* One call of call_tool.
call_tool(name, result) ==
    /\ Len(api_calls) < MaxCalls
    /\ result = "partial" => name = "monworld_enter"
    /\ LET did == tool(name, session, credentials, result)
       IN  /\ session' = did.session
           /\ api_calls' = api_calls \o did.calls
           /\ mcp_text' = [name |-> name, text |-> did.text]
    /\ UNCHANGED <<shared_state_file, pending_messages_file, credentials>>
    /\ UNCHANGED <<server, bot, fs, explorer, agent>>

\* The server has been started, with or without AGENT_WALLET and
\* ERC8004_AGENT_ID in its environment.
McpInit ==
    /\ ServerInit
    /\ BotInit
    /\ FsInit
    /\ ExplorerInit
    /\ claude_client = FALSE
    /\ SessionInit
    /\ credentials \in BOOLEAN
    /\ AgentInit
    /\ shared_state_file = StateFile("missing", <<>>, NoStatus)
    /\ pending_messages_file = PendingFile("missing", <<>>)

McpNext ==
    \E name \in Tools \cup {"no_such_tool"}, result \in {"ok", "error", "partial"} :
        call_tool(name, result)

McpSpec == McpInit /\ [][McpNext]_vars

(***************************************************************************)
(* The standalone agent (agents/simple-bot/agent.py): MonWorldAgent.       *)
(* Time is counted in seconds.                                             *)
(***************************************************************************)
MaxClock == 15      \* the last clock reading followed
MaxPosts == 3       \* requests do_action sends

\* enter_world (lines 39-79): self.state is set when the API answers 200.
enter_world(ok) ==
    /\ agent_state' = IF ok THEN "entered" ELSE agent_state
    /\ UNCHANGED <<shared_state_file, pending_messages_file, last_action_time, clock,
                   posted, returned>>
    /\ UNCHANGED <<server, bot, fs, explorer, monworld>>

\* A second passes.
tick ==
    /\ clock < MaxClock
    /\ clock' = clock + 1
    /\ UNCHANGED <<shared_state_file, pending_messages_file, agent_state,
                   last_action_time, posted, returned>>
    /\ UNCHANGED <<server, bot, fs, explorer, monworld>>

\* What requests.post does with the request of lines 106-111: the API answers
\* 200, it answers something else, it raises before anything is sent (the
\* connection is refused), or it raises after the request has gone out (the
\* connection is lost before the answer arrives).
Outcomes == {"200", "other", "unsent", "lost"}

\* do_action (lines 95-122).  last_action_time is set at line 112, after
\* requests.post has returned; when it raises, line 112 is not reached.
do_action(outcome) ==
    LET now == clock
    IN  /\ IF agent_state = None
           THEN /\ returned' = FALSE
                /\ UNCHANGED <<last_action_time, posted>>
           ELSE IF now - last_action_time < action_cooldown
           THEN /\ returned' = FALSE
                /\ UNCHANGED <<last_action_time, posted>>
           ELSE /\ Len(posted) < MaxPosts
                /\ posted' = IF outcome = "unsent" THEN posted ELSE Append(posted, now)
                /\ last_action_time' =
                       IF outcome \in {"200", "other"} THEN now ELSE last_action_time
                /\ returned' = (outcome = "200")
        /\ UNCHANGED <<shared_state_file, pending_messages_file, agent_state, clock>>
        /\ UNCHANGED <<server, bot, fs, explorer, monworld>>

\* MonWorldAgent() has been constructed.
AgentSpecInit ==
    /\ ServerInit
    /\ BotInit
    /\ FsInit
    /\ OthersInit
    /\ shared_state_file = StateFile("missing", <<>>, NoStatus)
    /\ pending_messages_file = PendingFile("missing", <<>>)

AgentNext ==
    \/ \E ok \in BOOLEAN : enter_world(ok)
    \/ tick
    \/ \E outcome \in Outcomes : do_action(outcome)

AgentSpec == AgentSpecInit /\ [][AgentNext]_vars

(***************************************************************************)
(* Properties.                                                             *)
(***************************************************************************)
Method(m) == IF IsObject(m) THEN Get(m.f[1], "") ELSE ""
MsgId(m) == IF IsObject(m) THEN Get(m.f[2], None) ELSE None

\* The step in which the message in msg is dispatched.
DispatchStep == pc = "dispatch" /\ pc' = "header"

\* The step wrote exactly one frame, and nothing else, to sys.stdout.
WroteOne == Len(stdout') = Len(stdout) + 1 /\ SubSeq(stdout', 1, Len(stdout)) = stdout

\* What a reader gets from one written frame.
Read(w) == Receive(w.wire)

IsTextResult(w) ==
    LET r == Read(w)
    IN  /\ r.ok
        /\ r.obj.f[2] = "result"
        /\ r.obj.f[3] = "content"
        /\ r.obj.hasText

FilesUnchanged ==
    /\ shared_state_file' = shared_state_file
    /\ pending_messages_file' = pending_messages_file

\* C1: the dispatch of every tools/call request writes exactly one frame, and
\* that frame is a result whose content is one text; also when the tool
\* handler raises.
C1_ToolsCallOneTextResult ==
    [][(DispatchStep /\ Method(msg) = "tools/call")
          => (WroteOne /\ IsTextResult(Last(stdout')))]_vars

\* C2: the dispatch of a request that carries no id writes nothing, whatever
\* its method.
C2_NoResponseWithoutId ==
    [][(DispatchStep /\ MsgId(msg) = None) => stdout' = stdout]_vars

\* C3: the dispatch of a request with an id and a method that the server does
\* not know writes exactly one frame: an error (no result) with the request's
\* id, code -32601 and the message "Method not found: <method>"; neither
\* file changes.
C3_UnknownMethodError ==
    [][(DispatchStep /\ MsgId(msg) # None /\ Method(msg) \notin KnownMethods)
          => /\ WroteOne
             /\ LET r == Read(Last(stdout'))
                IN  /\ r.ok
                    /\ r.obj.f = <<MsgId(msg), "error", Absent, "-32601">>
                    /\ r.obj.hasText
                    /\ r.obj.text = <<"Method not found: ">> \o Chars(Method(msg))
             /\ FilesUnchanged]_vars

\* An unknown method with an id has been dispatched and answered.
C3_Witness ==
    /\ pc = "header"
    /\ got # <<>>
    /\ Method(Last(got)) = "foo/bar"
    /\ MsgId(Last(got)) = "7"
    /\ Len(stdout) = 1

\* C4: the dispatch of a request with an unknown method and no id writes
\* nothing to sys.stdout or sys.stderr, changes neither file, and leaves the
\* loop at the read of the next header.
C4_UnknownNotificationIgnored ==
    [][(pc = "dispatch" /\ pc' # pc /\ IsObject(msg) /\ MsgId(msg) = None
            /\ Method(msg) \notin KnownMethods)
          => /\ stdout' = stdout
             /\ stderr' = stderr
             /\ FilesUnchanged
             /\ pc' = "header"
             /\ stdin' = stdin]_vars

\* A notification with an unknown method was written at a frame boundary and
\* dispatched; the server wrote nothing and waits at the next boundary.
C4_Witness ==
    /\ last.kind = "good" /\ last.clean
    /\ Method(last.doc) = "foo/bar" /\ MsgId(last.doc) = None
    /\ got = <<last.doc>>
    /\ AtBoundary
    /\ stdout = <<>>

\* C5: the loop is sequential.  A step that reads input writes no output and
\* is not taken while a parsed request is unanswered; output is written only
\* in the dispatch of the request in msg, appended after the earlier output,
\* and every frame written carries that request's id.
C5_Sequential ==
    [][/\ (Len(stdin') < Len(stdin)) => (stdout' = stdout /\ pc # "dispatch")
       /\ (Len(stdout') > Len(stdout))
             => /\ pc = "dispatch"
                /\ stdin' = stdin
                /\ SubSeq(stdout', 1, Len(stdout)) = stdout
                /\ got' = Append(got, msg)
                /\ \A i \in (Len(stdout) + 1)..Len(stdout') :
                       Read(stdout'[i]).ok /\ Read(stdout'[i]).obj.f[1] = MsgId(msg)]_vars

\* Two requests with an id were written one after the other; the second has
\* been read, dispatched and answered with its id.
C5_Witness ==
    /\ prev.kind = "good" /\ last.kind = "good"
    /\ MsgId(last.doc) = "7"
    /\ got = <<last.doc>>
    /\ AtBoundary
    /\ Len(stdout) = 1
    /\ Read(stdout[1]).obj.f[1] = "7"

\* The server waits for input that the client has yet to write.
Waiting == Blocked /\ ~eof

\* The body the client writes for doc holds one-byte characters only.
IsAscii(doc) == ByteLen(ClientBody(doc)) = Len(ClientBody(doc))

\* The frame written last was read from its first character, its request was
\* dispatched, and nothing is left unread.
LastFrameProcessed == AtBoundary /\ got = <<last.doc>>

\* The frame written last was dropped: no response, no dispatch, and the
\* server is at the next frame boundary.
LastFrameDropped == AtBoundary /\ got = <<>> /\ stdout = <<>>

\* C6: a frame whose header block has no Content-Length, with or without body
\* bytes after it, is skipped without a response, and the well-formed frame
\* written after it is parsed and dispatched.  (Stated for following frames
\* of one-byte characters, which keeps C9's case apart.)
C6_MissingLengthSkipped ==
    /\ (last.kind \in {"nocl", "nocl_body"} /\ last.clean /\ Waiting)
          => (got = <<>> /\ stdout = <<>>)
    /\ (prev.kind \in {"nocl", "nocl_body"} /\ prev.clean /\ last.kind = "good"
            /\ IsAscii(last.doc) /\ Waiting)
          => LastFrameProcessed

\* C7: a header block whose Content-Length is not a number, is zero or is
\* negative is dropped without a response and nothing after it is consumed:
\* the server is at the next frame boundary, and a well-formed frame written
\* next is parsed and dispatched.
C7_InvalidLengthDiscarded ==
    /\ (last.kind \in {"cl_nan", "cl_zero", "cl_neg"} /\ last.clean /\ Waiting)
          => LastFrameDropped
    /\ (prev.kind \in {"cl_nan", "cl_zero", "cl_neg"} /\ prev.clean
            /\ last.kind = "good" /\ IsAscii(last.doc) /\ Waiting)
          => LastFrameProcessed

\* C8: a frame whose body has the declared length in bytes and is not JSON is
\* dropped (no response, no dispatch, so no file changes), and the
\* well-formed frame written next is parsed and dispatched.
C8_UnparsableBodyDiscarded ==
    /\ (last.kind \in {"junk", "junk_wide"} /\ last.clean /\ Waiting)
          => LastFrameDropped
    /\ (prev.kind \in {"junk", "junk_wide"} /\ prev.clean
            /\ last.kind = "good" /\ IsAscii(last.doc) /\ Waiting)
          => LastFrameProcessed

\* C9: for a well-formed frame (declared length = the body's length in bytes)
\* written at a frame boundary, the server reads exactly the frame and parses
\* the object that was written, also when the body holds a character of more
\* than one byte: once the server waits again it is at the next boundary.
C9_ReceiveExact ==
    (last.kind \in WellFormedKinds /\ last.clean /\ Waiting) => LastFrameProcessed

\* C10: every frame the server writes declares the byte length of its body,
\* and reading the written text back gives the object that was serialized,
\* with nothing left over.
C10_SendRoundTrip ==
    \A i \in 1..Len(stdout) :
        LET w == stdout[i]
            e == HeaderEnd(w.wire)
            body == SubSeq(w.wire, e + 1, Len(w.wire))
            r == Read(w)
        IN  /\ e > 0
            /\ ParseHeader(SubSeq(w.wire, 1, e)).content_length = ByteLen(body)
            /\ r.ok
            /\ r.obj = w.message
            /\ r.rest = <<>>

\* A result whose text holds a character outside ASCII has been written.
C10_Witness ==
    \E i \in 1..Len(stdout) :
        /\ stdout[i].message.f[2] = "result"
        /\ Wide \in Range(stdout[i].message.text)

\* C11: when the input ends inside a frame (in its header block, or after fewer
\* body bytes than its header declared), main() returns and has written
\* nothing for that frame: no response, no dispatch.
C11_EndOfInputClean ==
    (pc = "done" /\ last.kind \in CutKinds /\ last.clean)
        => (got = <<>> /\ stdout = <<>>)

\* The loop ends only at the end of the input.
LoopRunning == pc = "done" => eof

Message(m) == IF m.hasText THEN m.text ELSE <<>>

\* C13: two oracle_get_status calls, one after the other, with no write to the
\* state file in between, are answered with the same text, whatever the clock
\* reads at each call.
C13_StatusIdempotent ==
    (/\ prev.status # <<>>
     /\ ToolCall(last.doc, "oracle_get_status")
     /\ LastFrameProcessed
     /\ Len(stdout) = 1)
        => stdout[1].message.text = prev.status

\* C14: the dispatch of oracle_send_message with a non-empty message m, when
\* the queue file holds a list Q, leaves the file holding Q followed by one
\* entry whose message is m.
C14_SendAppendsOne ==
    [][(/\ DispatchStep
        /\ ToolCall(msg, "oracle_send_message")
        /\ Message(msg) # <<>>
        /\ pending_messages_file.kind = "list")
          => LET Q == pending_messages_file.items
                 after == pending_messages_file'
             IN  /\ after.kind = "list"
                 /\ Len(after.items) = Len(Q) + 1
                 /\ SubSeq(after.items, 1, Len(Q)) = Q
                 /\ Last(after.items).message = Message(msg)]_vars

\* A second message has been appended behind the first one.
C14_Witness ==
    /\ pending_messages_file.kind = "list"
    /\ Len(pending_messages_file.items) = 2
    /\ got # <<>>
    /\ ToolCall(Last(got), "oracle_send_message")
    /\ pending_messages_file.items[2].message = Message(Last(got))
    /\ pending_messages_file.items[1].message # pending_messages_file.items[2].message

\* C15: the dispatch of oracle_send_message with no message, or an empty one,
\* answers with the text "Error: no message provided." and leaves the queue
\* file as it is, whatever it is (missing too).
C15_EmptyMessageRejected ==
    [][(DispatchStep /\ ToolCall(msg, "oracle_send_message") /\ Message(msg) = <<>>)
          => /\ WroteOne
             /\ IsTextResult(Last(stdout'))
             /\ Read(Last(stdout')).obj.text = <<"Error: no message provided.">>
             /\ pending_messages_file' = pending_messages_file]_vars

\* An empty message was rejected while there was no queue file, and there is
\* still none.
C15_Witness ==
    /\ got # <<>>
    /\ ToolCall(Last(got), "oracle_send_message")
    /\ Last(got).hasText /\ Last(got).text = <<>>
    /\ Len(stdout) = 1
    /\ stdout[1].message.text = <<"Error: no message provided.">>
    /\ pending_messages_file.kind = "missing"

\* A backing file that is missing or cannot be parsed.
Unusable(file) == file.kind \in {"missing", "garbage", "undecodable"}

\* The step answered with a result whose text is t.
AnsweredText(t) ==
    /\ WroteOne
    /\ IsTextResult(Last(stdout'))
    /\ Read(Last(stdout')).obj.text = t

\* C16: with a backing file that is missing or cannot be parsed, no tool
\* raises: oracle_get_conversations answers with its "no conversations yet"
\* text, oracle_get_status with its "not running" text, and oracle_send_message
\* (non-empty message) leaves a queue of exactly one entry, the new one.
C16_UnusableFileTolerated ==
    [][/\ (DispatchStep /\ ToolCall(msg, "oracle_get_conversations")
              /\ Unusable(shared_state_file))
           => AnsweredText(<<"No conversations yet. The Oracle bot may not be running.">>)
       /\ (DispatchStep /\ ToolCall(msg, "oracle_get_status")
              /\ Unusable(shared_state_file))
           => AnsweredText(<<"Oracle bot is not running or has not reported status yet.">>)
       /\ (DispatchStep /\ ToolCall(msg, "oracle_send_message") /\ Message(msg) # <<>>
              /\ Unusable(pending_messages_file))
           => /\ AnsweredText(<<"Message queued for Oracle: ">> \o Message(msg))
              /\ pending_messages_file'.kind = "list"
              /\ Len(pending_messages_file'.items) = 1
              /\ pending_messages_file'.items[1].message = Message(msg)]_vars

\* The limit of a request: the default when it gives none.
LimitOf(m) == IF m.f[4] = Absent THEN DefaultLimit ELSE IntOfValue(<<m.f[4]>>).n

\* The last k entries of a list.
LastEntries(C, k) == SubSeq(C, Len(C) - k + 1, Len(C))

\* C17: for a stored list C of conversations and a limit >= 0 (10 when the
\* request gives none), oracle_get_conversations reports the last
\* min(limit, |C|) entries of C, in order, each with its closing empty line,
\* and nothing else (its "no conversations yet" text when that is no entry).
C17_LastLimitEntries ==
    [][(/\ DispatchStep
        /\ ToolCall(msg, "oracle_get_conversations")
        /\ shared_state_file.kind = "dict"
        /\ \A i \in 1..Len(shared_state_file.conversations) :
               /\ shared_state_file.conversations[i].user # Absent
               /\ shared_state_file.conversations[i].oracle # Absent
        /\ (msg.f[4] = Absent \/ IntOfValue(<<msg.f[4]>>).ok)
        /\ LimitOf(msg) >= 0)
          => LET C == shared_state_file.conversations
                 want == LastEntries(C, Min(LimitOf(msg), Len(C)))
             IN  IF want = <<>>
                 THEN AnsweredText(
                          <<"No conversations yet. The Oracle bot may not be running.">>)
                 ELSE AnsweredText(Join(ConversationLines(want)))]_vars

\* C20: no step of the server changes the state file, and the queue file
\* changes only in the dispatch of a tools/call of oracle_send_message with a
\* non-empty message.
C20_ServerWrites ==
    [][/\ shared_state_file' = shared_state_file
       /\ (pending_messages_file' # pending_messages_file)
             => /\ pc = "dispatch"
                /\ ToolCall(msg, "oracle_send_message")
                /\ Message(msg) # <<>>]_vars

\* Every tool has been called (the last one, oracle_send_message, changed the
\* queue file) beside a state file that holds conversations and a status.
C20_Witness ==
    /\ shared_state_file.kind = "dict"
    /\ shared_state_file.conversations # <<>>
    /\ prev.status # <<>>
    /\ got # <<>>
    /\ ToolCall(Last(got), "oracle_send_message")
    /\ pending_messages_file.kind = "list"
    /\ pending_messages_file.items # <<>>

\* C18: the conversation list of the state file never holds more than 50
\* entries: after n conversations were logged it holds the last min(n, 50) of
\* them, in the order they came.
C18_ConversationCap ==
    LET n == Len(logged)
    IN  IF n = 0 THEN shared_state_file.kind = "missing"
        ELSE /\ shared_state_file.kind = "dict"
             /\ Len(shared_state_file.conversations) <= MaxConversations
             /\ shared_state_file.conversations
                   = LastEntries(logged, Min(n, MaxConversations))

\* More than 50 conversations have been logged and the oldest are gone.
C18_Witness ==
    /\ Len(logged) = MaxConversations + 2
    /\ Len(shared_state_file.conversations) = MaxConversations
    /\ shared_state_file.conversations[1] = logged[3]
    /\ Last(shared_state_file.conversations) = Last(logged)

\* The messages of a list of queue entries that are sent (the non-empty ones).
RECURSIVE Texts(_)
Texts(items) ==
    IF items = <<>> THEN <<>>
    ELSE (IF Head(items).message = <<>> THEN <<>> ELSE <<Head(items).message>>)
           \o Texts(Tail(items))

EmptyQueue == PendingFile("list", <<>>)

\* C19: the queue file becomes an empty list only in the bot's clearing step,
\* at the end of a relay cycle in which every entry read was sent; a request
\* handled by the server never leaves an empty list where there was none;
\* and the step in which a send fails leaves the file as it is.
C19_ClearedOnlyAfterRelay ==
    [][/\ (pending_messages_file' = EmptyQueue /\ pending_messages_file # EmptyQueue)
             => /\ relay_pc = "sending" /\ relay_pc' = "idle"
                /\ relay_items = <<>>
                /\ relay_sent = Texts(relay_read)
       /\ (relay_pc' = relay_pc /\ pending_messages_file' # pending_messages_file)
             => /\ pending_messages_file'.kind = "list"
                /\ pending_messages_file'.items # <<>>
       /\ (relay_pc = "sending" /\ relay_pc' = "idle" /\ relay_items # <<>>)
             => pending_messages_file' = pending_messages_file]_vars

\* A relay cycle has sent two messages and cleared the queue file.
C19_Witness ==
    /\ relay_pc = "idle"
    /\ Len(relay_read) = 2
    /\ relay_sent = Texts(relay_read)
    /\ pending_messages_file = EmptyQueue

\* A step of the server's oracle_send_message, and a step of the bot's
\* check_pending_messages, in the model of the file operations.
ServerStep == tool_pc' # tool_pc
BotStep == relay_pc' # relay_pc \/ relay_items' # relay_items

\* C21: each file has one writing process: a step that changes the queue file
\* is a step of the server, and a step that changes the state file is a step
\* of the bot.
C21_SingleWriter ==
    [][/\ pending_messages_file' # pending_messages_file => ServerStep /\ ~BotStep
       /\ shared_state_file' # shared_state_file => BotStep /\ ~ServerStep]_vars

IsPrefix(s, t) == Len(s) <= Len(t) /\ SubSeq(t, 1, Len(s)) = s

\* C23: a poll cycle takes the whole list of the queue file, the file becomes
\* an empty list only after every entry taken was sent, and when a cycle in
\* which a text was sent ends before the clear (a send raises, or the bot
\* dies), the file holds all entries of that cycle, in their order from the
\* start of its list, until the next cycle begins; that cycle sends the
\* texts sent before again, first.
C23_RelayThenClear ==
    [][/\ (relay_pc = "idle" /\ relay_pc' = "sending")
             => /\ relay_items' = pending_messages_file.items
                /\ relay_read' = pending_messages_file.items
       /\ (pending_messages_file' = EmptyQueue /\ pending_messages_file # EmptyQueue)
             => relay_items = <<>> /\ relay_sent = Texts(relay_read)
       /\ relay_cut' # <<>>
             => /\ relay_pc' = "idle"
                /\ pending_messages_file'.kind = "list"
                /\ IsPrefix(relay_read', pending_messages_file'.items)
       /\ relay_again' # <<>>
             => /\ relay_pc' = "sending"
                /\ IsPrefix(relay_again', relay_sent' \o Texts(relay_items'))]_vars

\* A cycle that follows one cut after its first send has sent that text again.
C23_Witness ==
    /\ relay_pc = "sending"
    /\ Len(relay_again) = 1
    /\ Len(relay_read) = 2
    /\ IsPrefix(relay_again, relay_sent)

\* The texts held by a list of queue entries.
Held(items) == {items[i].message : i \in 1..Len(items)}

\* C24: a message that oracle_send_message has confirmed has been relayed, or
\* is still on its way: in the queue file, in the list of the cycle that is
\* sending, or in the list the server is about to write.
C24_NoMessageLost ==
    \A i \in 1..Len(confirmed) :
        \/ confirmed[i] \in Range(telegram)
        \/ confirmed[i] \in Held(pending_messages_file.items)
        \/ confirmed[i] \in Held(relay_items)
        \/ confirmed[i] \in Held(tool_pending)

\* C25: when no send fails and the bot does not die, no text is relayed twice.
C25_AtMostOnce ==
    \A i, j \in 1..Len(telegram) : telegram[i] = telegram[j] => i = j

\* C22: after every user message the bot has handled, the last conversation
\* in the state file is that message with its reply.
C22_AppendedAlways ==
    (log_pc = "idle" /\ logged # <<>>)
        => /\ shared_state_file.kind = "dict"
           /\ shared_state_file.conversations # <<>>
           /\ Last(shared_state_file.conversations) = Last(logged)

\* The text a reading tool returns from a state file.
TextFrom(name, file, now) ==
    handle_tool_call(name, Absent, FALSE, <<>>, file, pending_messages_file, now).text

\* The step in which a tool call of the server returns.
ToolReturns == tool_result' # tool_result

\* C26: a reading tool that runs while the bot overwrites the state file
\* returns the text of the file as it was before the overwrite or the text of
\* the file as it is after it.
C26_ReaderSeesWholeState ==
    [][(ToolReturns /\ log_pc = "truncated")
           => /\ ~tool_result'.raised
              /\ tool_result'.text \in
                     {TextFrom(tool_result'.name, log_before, tool_result'.now),
                      TextFrom(tool_result'.name, log_shared, tool_result'.now)}]_vars

\* The last n characters of a text.
Suffix(t, n) == SubSeq(t, Len(t) - n + 1, Len(t))

\* C28: for a state file with a status block, oracle_get_status ends with
\* "Alive: yes" exactly when last_active is there, is not zero, and lies
\* less than 60 seconds before the clock reading; otherwise it ends with
\* "Alive: last seen <seconds>s ago" ("inf" without a last_active).
C28_AliveWindow ==
    [][(/\ ToolReturns
        /\ tool_result'.name = "oracle_get_status"
        /\ shared_state_file.kind = "dict"
        /\ ~shared_state_file.status.empty)
           => LET last_active == shared_state_file.status.last_active
                  ago == tool_result'.now - last_active
                  text == tool_result'.text
              IN  /\ ~tool_result'.raised
                  /\ IF last_active # 0 /\ ago < 60
                     THEN Suffix(text, 2) = <<"Alive: ", "yes">>
                     ELSE Suffix(text, 4) =
                              <<"Alive: ", "last seen ",
                                IF last_active = 0 THEN "inf" ELSE ToString(ago), "s ago">>]_vars

\* oracle_get_status has answered exactly 60 seconds after the last activity.
C28_Witness ==
    /\ tool_result.name = "oracle_get_status"
    /\ log_pc = "idle"
    /\ shared_state_file.kind = "dict"
    /\ shared_state_file.status.last_active # 0
    /\ tool_result.now - shared_state_file.status.last_active = 60
    /\ Suffix(tool_result.text, 3) = <<"last seen ", "60", "s ago">>

\* The top-level keys of the JSON object in a state file.
Keys(file) ==
    IF file.kind # "dict" THEN {}
    ELSE {"conversations"}
             \cup (IF "absent" \in DOMAIN file.status THEN {} ELSE {"status"})

\* The step in which _log_conversation has written the state file.
LogWritten == log_pc = "truncated" /\ log_pc' = "idle"

C30_StatusReplaced ==
    [][LogWritten
           => LET status == shared_state_file'.status
              IN  /\ DOMAIN status = {"empty", "connected", "agent_id", "position",
                                      "autonomous", "last_active"}
                  /\ ~status.empty
                  /\ status.connected = BoolStr(oracle_state.connected)
                  /\ status.agent_id = BotStatus(oracle_state, 0).agent_id
                  /\ status.position = BotStatus(oracle_state, 0).position
                  /\ status.autonomous = BoolStr(oracle_state.autonomous)
                  /\ status.last_active = Last(logged).timestamp]_vars

\* The bot has written over a status block of an earlier writer, of which
\* nothing is left.
C30_Witness ==
    /\ log_pc = "idle"
    /\ log_before.kind = "dict"
    /\ log_before.status = OldStatus
    /\ shared_state_file.kind = "dict"
    /\ shared_state_file.status.autonomous = "False"
    /\ shared_state_file.status.last_active = 1

\* C27: what the server writes for tools/list, ping and tools/call is a
\* function of the request, the two files and the clock, in every state the
\* main loop can be in, whatever frames came before: tools/list is answered
\* with the three descriptors of TOOLS, ping with an empty result, and
\* tools/call with the text of the tool for the files as they are.
C27_Stateless ==
    [][(DispatchStep /\ IsObject(msg))
           => LET id == MsgId(msg)
              IN  /\ Method(msg) = "tools/list"
                         => /\ stdout' = Append(stdout,
                                                send_response(id, Result("tools", TRUE, TOOLS)))
                            /\ Len(TOOLS) = 3
                            /\ FilesUnchanged
                  /\ Method(msg) = "ping"
                         => /\ stdout' = Append(stdout,
                                                send_response(id, Result("{}", FALSE, <<>>)))
                            /\ FilesUnchanged
                  /\ Method(msg) = "tools/call"
                         => \E now \in Times :
                                LET r == handle_tool_call(Get(msg.f[3], ""), msg.f[4],
                                                          msg.hasText, msg.text,
                                                          shared_state_file,
                                                          pending_messages_file, now)
                                IN  IF msg.f[3] = ListValue \/ r.raised
                                    THEN stdout' = stdout /\ FilesUnchanged
                                    ELSE /\ stdout' = Append(stdout,
                                                send_response(id,
                                                    Result("content", TRUE, r.text)))
                                         /\ pending_messages_file' = r.pending
                                         /\ shared_state_file' = shared_state_file]_vars

\* The first frame of a client is a tools/call and it has been answered with
\* the tool's text: no initialize came before.
C27_Witness ==
    /\ nframes = 1
    /\ AtBoundary
    /\ Len(got) = 1
    /\ ToolCall(got[1], "oracle_get_conversations")
    /\ Len(stdout) = 1
    /\ IsTextResult(stdout[1])

\* The name a tools/call request gives (params.get("name", "")).
ToolName(m) == Get(m.f[3], "")

\* C31: the dispatch of a tools/call request whose name is a string that is
\* none of the three registered tools writes exactly one frame, a result (not
\* an error) whose content is the text "Unknown tool: <name>", and changes
\* neither file.
C31_UnknownToolText ==
    [][(DispatchStep /\ Method(msg) = "tools/call" /\ msg.f[3] # ListValue
            /\ \A i \in 1..Len(TOOLS) : ToolName(msg) # TOOLS[i])
          => /\ AnsweredText(<<"Unknown tool: ">> \o Chars(ToolName(msg)))
             /\ Read(Last(stdout')).obj.f[2] = "result"
             /\ FilesUnchanged]_vars

\* A call of a tool the server does not have has been dispatched and
\* answered with one frame.
C31_Witness ==
    /\ pc = "header"
    /\ got # <<>>
    /\ ToolCall(Last(got), "no_such_tool")
    /\ Len(stdout) = 1
    /\ Read(Last(stdout)).obj.text = <<"Unknown tool: ">> \o Chars("no_such_tool")

\* Task i of the bot has not ended.
Running(i) == loops[i].at # "ended"

\* C32: whatever /explore and /stop commands the bot has handled, no two
\* autonomous loops have both submitted a world action since the last of
\* them (as at most one loop is running).
C32_OneLoopActs ==
    \A i, j \in 1..Len(loops) : (loops[i].acted /\ loops[j].acted) => i = j

AllEnded == \A i \in 1..Len(loops) : ~Running(i)

\* C33: while state.autonomous is false (no /explore has been handled or a
\* /stop was the last command), no loop has submitted a world action since
\* that command; and unless /explore is handled again and again, from some
\* time on every loop has ended.
C33_StopEndsLoops ==
    /\ [](~oracle_state.autonomous => \A i \in 1..Len(loops) : ~loops[i].acted)
    /\ ([]<>oracle_state.autonomous \/ <>[]AllEnded)

\* Two loops were created and have acted, /stop was handled, and both have
\* ended.
C33_Witness ==
    /\ Len(loops) = 2
    /\ ~oracle_state.autonomous
    /\ AllEnded
    /\ replies >= 2

\* C36: every step leaves state.conversation_history with an even number of
\* messages, at most 40.  A step in which the API replied appends the prompt
\* and the reply, and when that makes more than 40 messages keeps the last 20
\* of them; any other step, one in which ask_claude fell back for want of a
\* client or because the API call raised included, leaves the history as it
\* was.
C36_HistoryBounded ==
    [][LET h == conversation_history
           g == conversation_history'
       IN  /\ Len(g) <= 40
           /\ Len(g) % 2 = 0
           /\ (replies' = replies) => g = h
           /\ (replies' # replies) =>
                 /\ replies' = replies + 1
                 /\ g[Len(g) - 1].role = "user"
                 /\ g[Len(g)].role = "assistant"
                 /\ IF Len(h) + 2 > 40
                    THEN /\ Len(g) = 20
                         /\ SubSeq(g, 1, 18) = SubSeq(h, Len(h) - 17, Len(h))
                    ELSE /\ Len(g) = Len(h) + 2
                         /\ SubSeq(g, 1, Len(h)) = h]_vars

\* The 21st reply has made 42 messages, and the history holds the last 20
\* of them: the exchanges 12 to 21.
C36_Witness ==
    /\ replies = 21
    /\ Len(conversation_history) = 20
    /\ conversation_history[2].content = "12"
    /\ conversation_history[20].content = "21"

\* The tools of the MonWorld MCP server that send an authenticated request.
AuthTools == {"monworld_move", "monworld_chat", "monworld_give_reputation",
              "monworld_activate_beacon"}

\* C34: a call of monworld_move, monworld_chat, monworld_give_reputation or
\* monworld_activate_beacon while session["token"] is None makes no HTTP
\* request and returns a text that says the server is not connected.
C34_NoCallWithoutToken ==
    [][(session.token = None /\ mcp_text'.name \in AuthTools)
          => /\ api_calls' = api_calls
             /\ mcp_text'.text \in {NotConnected, NotLoggedIn}]_vars

\* C35: any two requests that do_action has sent are at least action_cooldown
\* (2 seconds) apart.
C35_CooldownBetweenRequests ==
    \A i, j \in 1..Len(posted) : i < j => posted[j] - posted[i] >= 2

====
